---- MODULE Spec2Model ----
(***************************************************************************)
(* Model of the concurrent scraping engine of scraper/scraper.go.          *)
(*                                                                         *)
(* Spec       : the multi-source main (scraper.go 226-289) with its two    *)
(*              source strategies scrapeNepalProperties and                *)
(*              scrapeDubaiProperties, the collector goroutine and the     *)
(*              unbuffered channel allProperties.                          *)
(* SpecSingle : the single-source main (scraper.go 592-649), which starts  *)
(*              one goroutine per page.                                    *)
(* SpecPipeline : the orchestrator main of pipeline/pipeline.go, which     *)
(*              runs the five stages as child processes.                   *)
(***************************************************************************)
EXTENDS Integers, Sequences, FiniteSets, TLC

\* ------------------------------------------------------------------------
\* Configuration (scraper.go 228-241)
\* ------------------------------------------------------------------------
Nepal == "realestateinnepal.com"
Dubai == "realestate.com.au/dubai"

websites == <<Nepal, Dubai>>

Sources == {websites[k] : k \in 1..Len(websites)}

PagesToScrape(s) == IF s = Nepal THEN 2 ELSE 3

\* Largest number of listing nodes a fetched document holds.
MaxNodes == 1

\* Raw field contents of a listing node, as far as the strategies branch on
\* them: the title text is empty or not, the parsed price is 0 or positive.
Titles == {"", "T"}
Prices == {0, 1}

\* The units of work: one per configured page of every source.
Units == UNION {{<<s, p>> : p \in 1..PagesToScrape(s)} : s \in Sources}

VARIABLES
    mainPc,               \* position of main
    spawnIdx,             \* index of the `for _, config := range websites` loop
    wg,                   \* sync.WaitGroup counter
    pc,                   \* position of each producer goroutine
    page,                 \* loop variable i of scrapeNepalProperties
    res,                  \* status code of the response held by a producer
    nodeCnt,              \* number of nodes selected by doc.Find(...)
    nodeIdx,              \* index of the node the Each callback is at
    unit,                 \* stage of every (source, page) unit of work
    cause,                \* why a unit failed
    logLines,             \* the lines log.Printf wrote for a unit, in order
    chClosed,             \* close(allProperties) has run
    panicked,             \* a goroutine panicked (send on closed channel)
    cpc,                  \* position of the collector goroutine
    prop,                 \* the collector's loop variable
    mu,                   \* sync.Mutex: "free" or the holder
    propertiesCollected,  \* the collected slice
    sent,                 \* history: every Property sent on allProperties
    reqLog,               \* history: per source, requests and delays in order
    file,                 \* result of json.MarshalIndent: <<>> before the
                          \* call, <<the JSON value>> after it
    saved,                \* what saveToFile wrote, in the same form
    logged,               \* the count of the summary log line
    exitStatus,           \* process exit status
    now,                  \* the last reading of the clock (time.Now)
    properties,           \* scrapePage's local slice, per page goroutine
    text,                 \* the raw text handed to a field normalizer
    out,                  \* what the normalizer or strategy returned for it
    pipePc,               \* position of the pipeline's main
    step,                 \* the number of the step main is at
    cmds,                 \* the child processes main has run, in order
    pipeLog,              \* the lines on the pipeline's log and stdout
    pipeExit              \* exit status of the pipeline process

vars == <<mainPc, spawnIdx, wg, pc, page, res, nodeCnt, nodeIdx, unit, cause,
          logLines, chClosed, panicked, cpc, prop, mu, propertiesCollected,
          sent, reqLog, file, saved, logged, exitStatus, now, properties,
          text, out, pipePc, step, cmds, pipeLog, pipeExit>>

mainVars == <<mainPc, spawnIdx, file, saved, logged, exitStatus>>
workVars == <<pc, page, res, nodeCnt, nodeIdx, unit, cause, logLines,
             reqLog>>
collVars == <<cpc, prop, mu, propertiesCollected>>
pipeVars == <<pipePc, step, cmds, pipeLog, pipeExit>>
auxVars  == <<now, properties, text, out, pipeVars>>

\* out before any normalizer has run.
NoOut == [fn |-> "none"]

\* The pipeline before main has run (pipeline.go 24).
PipelineInit ==
    /\ pipePc = "start"
    /\ step = 0
    /\ cmds = <<>>
    /\ pipeLog = <<>>
    /\ pipeExit = -1

NoProp == [src |-> "", page |-> 0, idx |-> 0, title |-> "", price |-> 0]

Range(q) == {q[k] : k \in 1..Len(q)}

\* The line a strategy logs before it requests a page, and the line a failure
\* branch logs with the error or status it met.
StartLine == [kind |-> "start", cause |-> "none"]

FailureLine(c) == [kind |-> "failure", cause |-> c]

\* The process lives until main returns or log.Fatalf / a panic ends it.
Running == mainPc \notin {"done", "fatal"}

\* Faulty variant of Runnable: the delay is taken under a lock shared by all
\* sources, so a sleeping source stops every producer.
RunnableGlobalDelay(s) == \A t \in DOMAIN pc : pc[t] # "sleep"

\* time.Sleep blocks the calling goroutine only.
Runnable(s) == pc[s] # "sleep"

Init ==
    /\ mainPc = "spawn"
    /\ spawnIdx = 1
    /\ wg = 0
    /\ pc = [s \in Sources |-> "none"]
    /\ page = [s \in Sources |-> 1]
    /\ res = [s \in Sources |-> 0]
    /\ nodeCnt = [s \in Sources |-> 0]
    /\ nodeIdx = [s \in Sources |-> 0]
    /\ unit = [u \in Units |-> "Pending"]
    /\ cause = [u \in Units |-> "none"]
    /\ logLines = [u \in Units |-> <<>>]
    /\ chClosed = FALSE
    /\ panicked = FALSE
    /\ cpc = "range"
    /\ prop = NoProp
    /\ mu = "free"
    /\ propertiesCollected = <<>>
    /\ sent = <<>>
    /\ reqLog = [s \in Sources |-> <<>>]
    /\ file = <<>>
    /\ saved = <<>>
    /\ logged = -1
    /\ exitStatus = -1
    /\ now = 0
    /\ properties = <<>>
    /\ text = <<>>
    /\ out = NoOut
    /\ PipelineInit

\* ------------------------------------------------------------------------
\* main (scraper.go 258-289)
\* ------------------------------------------------------------------------

\* One iteration of `for _, config := range websites`:
\* wg.Add(1); go func(cfg ScraperConfig) {...}(config)
MainSpawn ==
    /\ Running
    /\ mainPc = "spawn"
    /\ wg' = wg + 1
    /\ pc' = [pc EXCEPT ![websites[spawnIdx]] = "start"]
    /\ spawnIdx' = spawnIdx + 1
    /\ mainPc' = IF spawnIdx = Len(websites) THEN "wait" ELSE "spawn"
    /\ UNCHANGED <<page, res, nodeCnt, nodeIdx, unit, cause, logLines,
                   chClosed, panicked, reqLog, file, saved, logged,
                   exitStatus, sent>>
    /\ UNCHANGED collVars
    /\ UNCHANGED auxVars

\* Faulty variant of WgWaitReady: main does not wait for the producers.
WgWaitReadyNoBarrier == TRUE

\* wg.Wait() returns when the counter is zero.
WgWaitReady == wg = 0

MainWait ==
    /\ Running
    /\ mainPc = "wait"
    /\ WgWaitReady
    /\ mainPc' = "close"
    /\ UNCHANGED <<spawnIdx, wg, chClosed, panicked, sent, file, saved,
                   logged, exitStatus>>
    /\ UNCHANGED workVars
    /\ UNCHANGED collVars
    /\ UNCHANGED auxVars

\* close(allProperties)
MainClose ==
    /\ Running
    /\ mainPc = "close"
    /\ chClosed' = TRUE
    /\ mainPc' = "sleep"
    /\ UNCHANGED <<spawnIdx, wg, panicked, sent, file, saved, logged,
                   exitStatus>>
    /\ UNCHANGED workVars
    /\ UNCHANGED collVars
    /\ UNCHANGED auxVars

\* time.Sleep(1 * time.Second): passes time, synchronises with nothing.
MainSleep ==
    /\ Running
    /\ mainPc = "sleep"
    /\ mainPc' = "marshal"
    /\ UNCHANGED <<spawnIdx, wg, chClosed, panicked, sent, file, saved,
                   logged, exitStatus>>
    /\ UNCHANGED workVars
    /\ UNCHANGED collVars
    /\ UNCHANGED auxVars

\* What an unlocked read of propertiesCollected can return: the slice, or,
\* when the collector is in the middle of its append, the slice before or
\* after that append (a data race).
ReadCollected ==
    IF cpc = "appending"
    THEN {propertiesCollected, Append(propertiesCollected, prop)}
    ELSE {propertiesCollected}

\* encoding/json on a []Property: a nil slice is encoded as null, any other
\* slice as an array of its elements.  propertiesCollected is declared
\* without a value (nil) and only ever assigned the result of append, so it
\* is nil exactly as long as it has no element.
MarshalIndent(v) ==
    IF Len(v) = 0
    THEN [kind |-> "null", elems |-> <<>>]
    ELSE [kind |-> "array", elems |-> v]

\* json.MarshalIndent(propertiesCollected, "", "  ") starts reading the slice.
MarshalBegin ==
    /\ Running
    /\ mainPc = "marshal"
    /\ mainPc' = "marshaling"
    /\ UNCHANGED <<spawnIdx, wg, chClosed, panicked, sent, file, saved,
                   logged, exitStatus>>
    /\ UNCHANGED workVars
    /\ UNCHANGED collVars
    /\ UNCHANGED auxVars

\* json.MarshalIndent returns: the serialized slice, or an error and
\* log.Fatalf.
MarshalEnd ==
    /\ Running
    /\ mainPc = "marshaling"
    /\ \/ /\ \E v \in ReadCollected : file' = <<MarshalIndent(v)>>
          /\ mainPc' = "save"
          /\ UNCHANGED exitStatus
       \/ /\ mainPc' = "fatal"
          /\ exitStatus' = 1
          /\ UNCHANGED file
    /\ UNCHANGED <<spawnIdx, wg, chClosed, panicked, sent, saved, logged>>
    /\ UNCHANGED workVars
    /\ UNCHANGED collVars
    /\ UNCHANGED auxVars

\* saveToFile(outputPath, file): os.WriteFile succeeds, or fails and
\* log.Fatalf ends the process.
MainSave ==
    /\ Running
    /\ mainPc = "save"
    /\ \/ /\ saved' = file
          /\ mainPc' = "count"
          /\ UNCHANGED exitStatus
       \/ /\ mainPc' = "fatal"
          /\ exitStatus' = 1
          /\ UNCHANGED saved
    /\ UNCHANGED <<spawnIdx, wg, chClosed, panicked, sent, file, logged>>
    /\ UNCHANGED workVars
    /\ UNCHANGED collVars
    /\ UNCHANGED auxVars

\* The arguments of the summary log.Printf are evaluated:
\* len(propertiesCollected) is read.
CountBegin ==
    /\ Running
    /\ mainPc = "count"
    /\ mainPc' = "counting"
    /\ UNCHANGED <<spawnIdx, wg, chClosed, panicked, sent, file, saved,
                   logged, exitStatus>>
    /\ UNCHANGED workVars
    /\ UNCHANGED collVars
    /\ UNCHANGED auxVars

\* log.Printf("Scraping complete. Saved %d properties to %s", ...); main
\* returns and the process exits with status 0.
LogSummary ==
    /\ Running
    /\ mainPc = "counting"
    /\ \E v \in ReadCollected : logged' = Len(v)
    /\ mainPc' = "done"
    /\ exitStatus' = 0
    /\ UNCHANGED <<spawnIdx, wg, chClosed, panicked, sent, file, saved>>
    /\ UNCHANGED workVars
    /\ UNCHANGED collVars
    /\ UNCHANGED auxVars

\* ------------------------------------------------------------------------
\* The channel allProperties and the collector goroutine (scraper.go 243-255)
\* ------------------------------------------------------------------------

\* allProperties <- p on the unbuffered channel: the send completes when the
\* collector, waiting in its range loop, receives the value; a send on a
\* closed channel panics and ends the process.
Deliver(p) ==
    IF chClosed
    THEN /\ panicked' = TRUE
         /\ mainPc' = "fatal"
         /\ exitStatus' = 2
         /\ UNCHANGED <<cpc, prop, sent>>
    ELSE /\ cpc = "range"
         /\ cpc' = "lock"
         /\ prop' = p
         /\ sent' = Append(sent, p)
         /\ UNCHANGED <<panicked, mainPc, exitStatus>>

\* mu.Lock()
CollectorLock ==
    /\ Running
    /\ cpc = "lock"
    /\ mu = "free"
    /\ mu' = "collector"
    /\ cpc' = "append"
    /\ UNCHANGED <<prop, propertiesCollected, wg, chClosed, panicked, sent>>
    /\ UNCHANGED mainVars
    /\ UNCHANGED workVars
    /\ UNCHANGED auxVars

\* propertiesCollected = append(propertiesCollected, prop) starts ...
AppendBegin ==
    /\ Running
    /\ cpc = "append"
    /\ cpc' = "appending"
    /\ UNCHANGED <<prop, mu, propertiesCollected, wg, chClosed, panicked,
                   sent>>
    /\ UNCHANGED mainVars
    /\ UNCHANGED workVars
    /\ UNCHANGED auxVars

\* Faulty variant of AppendEnd: the received Property is stored twice.
AppendEndTwice ==
    /\ Running
    /\ cpc = "appending"
    /\ propertiesCollected' = Append(Append(propertiesCollected, prop), prop)
    /\ cpc' = "unlock"
    /\ UNCHANGED <<prop, mu, wg, chClosed, panicked, sent>>
    /\ UNCHANGED mainVars
    /\ UNCHANGED workVars
    /\ UNCHANGED auxVars

\* Faulty variant of AppendEnd: the received Property is put at the front.
AppendEndPrepends ==
    /\ Running
    /\ cpc = "appending"
    /\ propertiesCollected' = <<prop>> \o propertiesCollected
    /\ cpc' = "unlock"
    /\ UNCHANGED <<prop, mu, wg, chClosed, panicked, sent>>
    /\ UNCHANGED mainVars
    /\ UNCHANGED workVars
    /\ UNCHANGED auxVars

\* ... and has stored the new slice.
AppendEnd ==
    /\ Running
    /\ cpc = "appending"
    /\ propertiesCollected' = Append(propertiesCollected, prop)
    /\ cpc' = "unlock"
    /\ UNCHANGED <<prop, mu, wg, chClosed, panicked, sent>>
    /\ UNCHANGED mainVars
    /\ UNCHANGED workVars
    /\ UNCHANGED auxVars

\* mu.Unlock(), back to the range loop (prop is dead until the next receive).
CollectorUnlock ==
    /\ Running
    /\ cpc = "unlock"
    /\ mu' = "free"
    /\ prop' = NoProp
    /\ cpc' = "range"
    /\ UNCHANGED <<propertiesCollected, wg, chClosed, panicked, sent>>
    /\ UNCHANGED mainVars
    /\ UNCHANGED workVars
    /\ UNCHANGED auxVars

\* The range loop ends once the channel is closed (and drained: the channel
\* is unbuffered).
CollectorExit ==
    /\ Running
    /\ cpc = "range"
    /\ chClosed
    /\ cpc' = "exited"
    /\ UNCHANGED <<prop, mu, propertiesCollected, wg, chClosed, panicked,
                   sent>>
    /\ UNCHANGED mainVars
    /\ UNCHANGED workVars
    /\ UNCHANGED auxVars

\* ------------------------------------------------------------------------
\* The producer goroutine of one website (scraper.go 260-269)
\* ------------------------------------------------------------------------

\* Faulty variant of WorkerStart: wg.Done() is not deferred but called first
\* thing in the goroutine.
WorkerStartDoneEarly(s) ==
    /\ Running
    /\ pc[s] = "start"
    /\ wg' = wg - 1
    /\ pc' = [pc EXCEPT ![s] = IF s = Dubai THEN "d_req" ELSE "loop"]
    /\ UNCHANGED <<page, res, nodeCnt, nodeIdx, unit, cause, logLines, reqLog,
                   chClosed, panicked, sent>>
    /\ UNCHANGED mainVars
    /\ UNCHANGED collVars
    /\ UNCHANGED auxVars

\* log "Starting to scrape", then dispatch on cfg.Source.
WorkerStart(s) ==
    /\ Running
    /\ pc[s] = "start"
    /\ pc' = [pc EXCEPT ![s] = IF s = Dubai THEN "d_req" ELSE "loop"]
    /\ UNCHANGED <<page, res, nodeCnt, nodeIdx, unit, cause, logLines, reqLog,
                   wg, chClosed, panicked, sent>>
    /\ UNCHANGED mainVars
    /\ UNCHANGED collVars
    /\ UNCHANGED auxVars

\* Faulty variant of GoroutineExit: the goroutine returns without wg.Done(), so
\* the counter never reaches zero and wg.Wait() blocks for ever.
GoroutineExitNoDone(s) ==
    /\ Running
    /\ pc[s] = "ret"
    /\ pc' = [pc EXCEPT ![s] = "exited"]
    /\ UNCHANGED <<page, res, nodeCnt, nodeIdx, unit, cause, logLines, reqLog,
                   wg, chClosed, panicked, sent>>
    /\ UNCHANGED mainVars
    /\ UNCHANGED collVars
    /\ UNCHANGED auxVars

\* The strategy returned; the deferred wg.Done() runs.
GoroutineExit(s) ==
    /\ Running
    /\ pc[s] = "ret"
    /\ wg' = wg - 1
    /\ pc' = [pc EXCEPT ![s] = "exited"]
    /\ UNCHANGED <<page, res, nodeCnt, nodeIdx, unit, cause, logLines, reqLog,
                   chClosed, panicked, sent>>
    /\ UNCHANGED mainVars
    /\ UNCHANGED collVars
    /\ UNCHANGED auxVars

\* ------------------------------------------------------------------------
\* scrapeNepalProperties (scraper.go 369-454)
\* ------------------------------------------------------------------------

\* A failure branch of the page loop: log the cause, `continue`.
NepalContinue(s, c) ==
    /\ unit' = [unit EXCEPT ![<<s, page[s]>>] = "Failed"]
    /\ cause' = [cause EXCEPT ![<<s, page[s]>>] = c]
    /\ logLines' = [logLines EXCEPT
                       ![<<s, page[s]>>] = Append(@, FailureLine(c))]
    /\ page' = [page EXCEPT ![s] = page[s] + 1]
    /\ res' = [res EXCEPT ![s] = 0]
    /\ pc' = [pc EXCEPT ![s] = "loop"]

\* i <= config.PagesToScrape: log the start line and issue http.Get(url).
NepalRequest(s) ==
    /\ Running
    /\ Runnable(s)
    /\ pc[s] = "loop"
    /\ page[s] <= PagesToScrape(s)
    /\ unit' = [unit EXCEPT ![<<s, page[s]>>] = "Fetching"]
    /\ logLines' = [logLines EXCEPT ![<<s, page[s]>>] = Append(@, StartLine)]
    /\ reqLog' = [reqLog EXCEPT ![s] = Append(reqLog[s], "req")]
    /\ pc' = [pc EXCEPT ![s] = "get"]
    /\ UNCHANGED <<page, res, nodeCnt, nodeIdx, cause, wg, chClosed, panicked,
                   sent>>
    /\ UNCHANGED mainVars
    /\ UNCHANGED collVars
    /\ UNCHANGED auxVars

\* i > config.PagesToScrape: the loop ends and the function returns.
NepalLoopExit(s) ==
    /\ Running
    /\ Runnable(s)
    /\ pc[s] = "loop"
    /\ page[s] > PagesToScrape(s)
    /\ pc' = [pc EXCEPT ![s] = "ret"]
    /\ UNCHANGED <<page, res, nodeCnt, nodeIdx, unit, cause, logLines, reqLog,
                   wg, chClosed, panicked, sent>>
    /\ UNCHANGED mainVars
    /\ UNCHANGED collVars
    /\ UNCHANGED auxVars

\* Faulty variant of NepalGet: a transport error is reported with log.Fatalf
\* and ends the process.
NepalGetFatal(s) ==
    /\ Running
    /\ Runnable(s)
    /\ pc[s] = "get"
    /\ \/ /\ mainPc' = "fatal"
          /\ exitStatus' = 1
          /\ UNCHANGED <<res, pc, page, unit, cause, logLines>>
       \/ /\ \E st \in {200, 404} : res' = [res EXCEPT ![s] = st]
          /\ pc' = [pc EXCEPT ![s] = "status"]
          /\ UNCHANGED <<page, unit, cause, logLines, mainPc, exitStatus>>
    /\ UNCHANGED <<nodeCnt, nodeIdx, reqLog, wg, chClosed, panicked, sent,
                   spawnIdx, file, saved, logged>>
    /\ UNCHANGED collVars
    /\ UNCHANGED auxVars

\* http.Get returns: a transport error, or a response with some status.
NepalGet(s) ==
    /\ Running
    /\ Runnable(s)
    /\ pc[s] = "get"
    /\ \/ NepalContinue(s, "transport")
       \/ /\ \E st \in {200, 404} : res' = [res EXCEPT ![s] = st]
          /\ pc' = [pc EXCEPT ![s] = "status"]
          /\ UNCHANGED <<page, unit, cause, logLines>>
    /\ UNCHANGED <<nodeCnt, nodeIdx, reqLog, wg, chClosed, panicked, sent>>
    /\ UNCHANGED mainVars
    /\ UNCHANGED collVars
    /\ UNCHANGED auxVars

\* Faulty variant of NepalCheckStatus: the non-200 branch logs the failure
\* but lacks the `continue`, so the page is parsed and extracted all the same.
NepalCheckStatusNoContinue(s) ==
    /\ Running
    /\ Runnable(s)
    /\ pc[s] = "status"
    /\ IF res[s] # 200
       THEN /\ unit' = [unit EXCEPT ![<<s, page[s]>>] = "Failed"]
            /\ cause' = [cause EXCEPT ![<<s, page[s]>>] = "status"]
            /\ logLines' = [logLines EXCEPT
                               ![<<s, page[s]>>] =
                                   Append(@, FailureLine("status"))]
            /\ pc' = [pc EXCEPT ![s] = "parse"]
            /\ UNCHANGED <<page, res>>
       ELSE /\ unit' = [unit EXCEPT ![<<s, page[s]>>] = "Parsing"]
            /\ pc' = [pc EXCEPT ![s] = "parse"]
            /\ UNCHANGED <<page, res, cause, logLines>>
    /\ UNCHANGED <<nodeCnt, nodeIdx, reqLog, wg, chClosed, panicked, sent>>
    /\ UNCHANGED mainVars
    /\ UNCHANGED collVars
    /\ UNCHANGED auxVars

\* if res.StatusCode != 200 { log; continue }
NepalCheckStatus(s) ==
    /\ Running
    /\ Runnable(s)
    /\ pc[s] = "status"
    /\ IF res[s] # 200
       THEN NepalContinue(s, "status")
       ELSE /\ unit' = [unit EXCEPT ![<<s, page[s]>>] = "Parsing"]
            /\ pc' = [pc EXCEPT ![s] = "parse"]
            /\ UNCHANGED <<page, res, cause, logLines>>
    /\ UNCHANGED <<nodeCnt, nodeIdx, reqLog, wg, chClosed, panicked, sent>>
    /\ UNCHANGED mainVars
    /\ UNCHANGED collVars
    /\ UNCHANGED auxVars

\* goquery.NewDocumentFromReader: an error, or a document with some number
\* of listing nodes; doc.Find(...).Each starts at node 0.
NepalParse(s) ==
    /\ Running
    /\ Runnable(s)
    /\ pc[s] = "parse"
    /\ \/ /\ NepalContinue(s, "parse")
          /\ UNCHANGED <<nodeCnt, nodeIdx>>
       \/ /\ \E n \in 0..MaxNodes : nodeCnt' = [nodeCnt EXCEPT ![s] = n]
          /\ nodeIdx' = [nodeIdx EXCEPT ![s] = 0]
          /\ unit' = [unit EXCEPT ![<<s, page[s]>>] = "Extracting"]
          /\ pc' = [pc EXCEPT ![s] = "each"]
          /\ UNCHANGED <<page, res, cause, logLines>>
    /\ UNCHANGED <<reqLog, wg, chClosed, panicked, sent>>
    /\ UNCHANGED mainVars
    /\ UNCHANGED collVars
    /\ UNCHANGED auxVars

\* Faulty variant of NepalEach: a node that cannot be extracted fails the
\* whole page instead of being emitted with zero values.
NepalEachAbortsPage(s) ==
    /\ Running
    /\ Runnable(s)
    /\ pc[s] = "each"
    /\ nodeIdx[s] < nodeCnt[s]
    /\ \/ /\ \E t \in Titles, pr \in Prices :
                Deliver([src |-> s, page |-> page[s], idx |-> nodeIdx[s],
                         title |-> t, price |-> pr])
          /\ nodeIdx' = [nodeIdx EXCEPT ![s] = nodeIdx[s] + 1]
          /\ UNCHANGED <<pc, page, res, nodeCnt, unit, cause, logLines>>
       \/ /\ NepalContinue(s, "extract")
          /\ nodeCnt' = [nodeCnt EXCEPT ![s] = 0]
          /\ nodeIdx' = [nodeIdx EXCEPT ![s] = 0]
          /\ UNCHANGED <<panicked, mainPc, exitStatus, cpc, prop, sent>>
    /\ UNCHANGED <<reqLog, wg, chClosed, spawnIdx, file, saved, logged, mu,
                   propertiesCollected>>
    /\ UNCHANGED auxVars

\* The Each callback on node i: extract the fields, build the Property and
\* send it, whatever the fields are.
NepalEach(s) ==
    /\ Running
    /\ Runnable(s)
    /\ pc[s] = "each"
    /\ nodeIdx[s] < nodeCnt[s]
    /\ \E t \in Titles, pr \in Prices :
          Deliver([src |-> s, page |-> page[s], idx |-> nodeIdx[s],
                   title |-> t, price |-> pr])
    /\ nodeIdx' = [nodeIdx EXCEPT ![s] = nodeIdx[s] + 1]
    /\ UNCHANGED <<pc, page, res, nodeCnt, unit, cause, logLines, reqLog, wg,
                   chClosed, spawnIdx, file, saved, logged, mu,
                   propertiesCollected>>
    /\ UNCHANGED auxVars

\* Each is over: the page is finished and time.Sleep(2 * time.Second) starts.
NepalEachDone(s) ==
    /\ Running
    /\ Runnable(s)
    /\ pc[s] = "each"
    /\ nodeIdx[s] = nodeCnt[s]
    /\ unit' = [unit EXCEPT ![<<s, page[s]>>] = "Done"]
    /\ res' = [res EXCEPT ![s] = 0]
    /\ nodeCnt' = [nodeCnt EXCEPT ![s] = 0]
    /\ nodeIdx' = [nodeIdx EXCEPT ![s] = 0]
    /\ pc' = [pc EXCEPT ![s] = "sleep"]
    /\ UNCHANGED <<page, cause, logLines, reqLog, wg, chClosed, panicked,
                   sent>>
    /\ UNCHANGED mainVars
    /\ UNCHANGED collVars
    /\ UNCHANGED auxVars

\* The 2-second sleep is over; i++.
NepalSleep(s) ==
    /\ Running
    /\ pc[s] = "sleep"
    /\ reqLog' = [reqLog EXCEPT ![s] = Append(reqLog[s], "sleep")]
    /\ page' = [page EXCEPT ![s] = page[s] + 1]
    /\ pc' = [pc EXCEPT ![s] = "loop"]
    /\ UNCHANGED <<res, nodeCnt, nodeIdx, unit, cause, logLines, wg, chClosed,
                   panicked, sent>>
    /\ UNCHANGED mainVars
    /\ UNCHANGED collVars
    /\ UNCHANGED auxVars

\* ------------------------------------------------------------------------
\* scrapeDubaiProperties (scraper.go 291-367): one request to config.BaseURL;
\* config.PagesToScrape is not read.
\* ------------------------------------------------------------------------

\* A failure branch: log the cause, `return`.
DubaiFail(s, c) ==
    /\ unit' = [unit EXCEPT ![<<s, 1>>] = "Failed"]
    /\ cause' = [cause EXCEPT ![<<s, 1>>] = c]
    /\ logLines' = [logLines EXCEPT ![<<s, 1>>] = Append(@, FailureLine(c))]
    /\ res' = [res EXCEPT ![s] = 0]
    /\ pc' = [pc EXCEPT ![s] = "ret"]

\* log the start line and issue http.Get(url).
DubaiRequest(s) ==
    /\ Running
    /\ Runnable(s)
    /\ pc[s] = "d_req"
    /\ unit' = [unit EXCEPT ![<<s, 1>>] = "Fetching"]
    /\ logLines' = [logLines EXCEPT ![<<s, 1>>] = Append(@, StartLine)]
    /\ reqLog' = [reqLog EXCEPT ![s] = Append(reqLog[s], "req")]
    /\ pc' = [pc EXCEPT ![s] = "d_get"]
    /\ UNCHANGED <<page, res, nodeCnt, nodeIdx, cause, wg, chClosed, panicked,
                   sent>>
    /\ UNCHANGED mainVars
    /\ UNCHANGED collVars
    /\ UNCHANGED auxVars

\* http.Get returns: a transport error, or a response with some status.
DubaiGet(s) ==
    /\ Running
    /\ Runnable(s)
    /\ pc[s] = "d_get"
    /\ \/ DubaiFail(s, "transport")
       \/ /\ \E st \in {200, 404} : res' = [res EXCEPT ![s] = st]
          /\ pc' = [pc EXCEPT ![s] = "d_status"]
          /\ UNCHANGED <<unit, cause, logLines>>
    /\ UNCHANGED <<page, nodeCnt, nodeIdx, reqLog, wg, chClosed, panicked,
                   sent>>
    /\ UNCHANGED mainVars
    /\ UNCHANGED collVars
    /\ UNCHANGED auxVars

\* if res.StatusCode != 200 { log; return }
DubaiCheckStatus(s) ==
    /\ Running
    /\ Runnable(s)
    /\ pc[s] = "d_status"
    /\ IF res[s] # 200
       THEN DubaiFail(s, "status")
       ELSE /\ unit' = [unit EXCEPT ![<<s, 1>>] = "Parsing"]
            /\ pc' = [pc EXCEPT ![s] = "d_parse"]
            /\ UNCHANGED <<res, cause, logLines>>
    /\ UNCHANGED <<page, nodeCnt, nodeIdx, reqLog, wg, chClosed, panicked,
                   sent>>
    /\ UNCHANGED mainVars
    /\ UNCHANGED collVars
    /\ UNCHANGED auxVars

\* goquery.NewDocumentFromReader, then doc.Find(...).Each starts at node 0.
DubaiParse(s) ==
    /\ Running
    /\ Runnable(s)
    /\ pc[s] = "d_parse"
    /\ \/ /\ DubaiFail(s, "parse")
          /\ UNCHANGED <<nodeCnt, nodeIdx>>
       \/ /\ \E n \in 0..MaxNodes : nodeCnt' = [nodeCnt EXCEPT ![s] = n]
          /\ nodeIdx' = [nodeIdx EXCEPT ![s] = 0]
          /\ unit' = [unit EXCEPT ![<<s, 1>>] = "Extracting"]
          /\ pc' = [pc EXCEPT ![s] = "d_each"]
          /\ UNCHANGED <<res, cause, logLines>>
    /\ UNCHANGED <<page, reqLog, wg, chClosed, panicked, sent>>
    /\ UNCHANGED mainVars
    /\ UNCHANGED collVars
    /\ UNCHANGED auxVars

\* Faulty variant of DubaiEach: the Property is sent whatever its title and
\* price are.
DubaiEachKeepsAll(s) ==
    /\ Running
    /\ Runnable(s)
    /\ pc[s] = "d_each"
    /\ nodeIdx[s] < nodeCnt[s]
    /\ \E t \in Titles, pr \in Prices :
          Deliver([src |-> s, page |-> 1, idx |-> nodeIdx[s],
                   title |-> t, price |-> pr])
    /\ nodeIdx' = [nodeIdx EXCEPT ![s] = nodeIdx[s] + 1]
    /\ UNCHANGED <<pc, page, res, nodeCnt, unit, cause, logLines, reqLog, wg,
                   chClosed, spawnIdx, file, saved, logged, mu,
                   propertiesCollected>>
    /\ UNCHANGED auxVars

\* The Each callback on node i (the selector guarantees the href the
\* callback first checks): the Property is sent only if title != "" and
\* price > 0, otherwise the node is dropped.
DubaiEach(s) ==
    /\ Running
    /\ Runnable(s)
    /\ pc[s] = "d_each"
    /\ nodeIdx[s] < nodeCnt[s]
    /\ \E t \in Titles, pr \in Prices :
          IF t # "" /\ pr > 0
          THEN Deliver([src |-> s, page |-> 1, idx |-> nodeIdx[s],
                        title |-> t, price |-> pr])
          ELSE UNCHANGED <<panicked, mainPc, exitStatus, cpc, prop, sent>>
    /\ nodeIdx' = [nodeIdx EXCEPT ![s] = nodeIdx[s] + 1]
    /\ UNCHANGED <<pc, page, res, nodeCnt, unit, cause, logLines, reqLog, wg,
                   chClosed, spawnIdx, file, saved, logged, mu,
                   propertiesCollected>>
    /\ UNCHANGED auxVars

\* Each is over: the function returns.
DubaiEachDone(s) ==
    /\ Running
    /\ Runnable(s)
    /\ pc[s] = "d_each"
    /\ nodeIdx[s] = nodeCnt[s]
    /\ unit' = [unit EXCEPT ![<<s, 1>>] = "Done"]
    /\ res' = [res EXCEPT ![s] = 0]
    /\ nodeCnt' = [nodeCnt EXCEPT ![s] = 0]
    /\ nodeIdx' = [nodeIdx EXCEPT ![s] = 0]
    /\ pc' = [pc EXCEPT ![s] = "ret"]
    /\ UNCHANGED <<page, cause, logLines, reqLog, wg, chClosed, panicked,
                   sent>>
    /\ UNCHANGED mainVars
    /\ UNCHANGED collVars
    /\ UNCHANGED auxVars

\* ------------------------------------------------------------------------
\* The multi-source program
\* ------------------------------------------------------------------------
Next ==
    \/ MainSpawn
    \/ MainWait
    \/ MainClose
    \/ MainSleep
    \/ MarshalBegin
    \/ MarshalEnd
    \/ MainSave
    \/ CountBegin
    \/ LogSummary
    \/ CollectorLock
    \/ AppendBegin
    \/ AppendEnd
    \/ CollectorUnlock
    \/ CollectorExit
    \/ \E s \in Sources :
          \/ WorkerStart(s)
          \/ GoroutineExit(s)
          \/ NepalRequest(s)
          \/ NepalLoopExit(s)
          \/ NepalGet(s)
          \/ NepalCheckStatus(s)
          \/ NepalParse(s)
          \/ NepalEach(s)
          \/ NepalEachDone(s)
          \/ NepalSleep(s)
          \/ DubaiRequest(s)
          \/ DubaiGet(s)
          \/ DubaiCheckStatus(s)
          \/ DubaiParse(s)
          \/ DubaiEach(s)
          \/ DubaiEachDone(s)

Spec == Init /\ [][Next]_vars

\* The steps of main, of the collector goroutine and of the producer
\* goroutine of source s.
MainStep ==
    \/ MainSpawn
    \/ MainWait
    \/ MainClose
    \/ MainSleep
    \/ MarshalBegin
    \/ MarshalEnd
    \/ MainSave
    \/ CountBegin
    \/ LogSummary

CollectorStep ==
    \/ CollectorLock
    \/ AppendBegin
    \/ AppendEnd
    \/ CollectorUnlock
    \/ CollectorExit

SourceStep(s) ==
    \/ WorkerStart(s)
    \/ GoroutineExit(s)
    \/ NepalRequest(s)
    \/ NepalLoopExit(s)
    \/ NepalGet(s)
    \/ NepalCheckStatus(s)
    \/ NepalParse(s)
    \/ NepalEach(s)
    \/ NepalEachDone(s)
    \/ NepalSleep(s)
    \/ DubaiRequest(s)
    \/ DubaiGet(s)
    \/ DubaiCheckStatus(s)
    \/ DubaiParse(s)
    \/ DubaiEach(s)
    \/ DubaiEachDone(s)

\* The Go scheduler: a goroutine that can run is run in the end, every
\* http.Get returns and every time.Sleep is over at some time.
Fairness ==
    /\ WF_vars(MainStep)
    /\ WF_vars(CollectorStep)
    /\ \A s \in Sources : WF_vars(SourceStep(s))

SpecFair == Spec /\ Fairness

\* ------------------------------------------------------------------------
\* The single-source program (scraper.go 592-649, the same main as 38-95):
\* one goroutine per page, started 2 seconds apart; wg.Wait and everything
\* after it, and the collector, are as in the multi-source main.
\* ------------------------------------------------------------------------

\* config.PagesToScrape of the single-source main.
SinglePages == 2

SingleUnits == {<<Nepal, p>> : p \in 1..SinglePages}

InitSingle ==
    /\ mainPc = "spawn"
    /\ spawnIdx = 1
    /\ wg = 0
    /\ pc = [w \in 1..SinglePages |-> "none"]
    /\ page = [w \in 1..SinglePages |-> w]
    /\ res = [w \in 1..SinglePages |-> 0]
    /\ nodeCnt = [w \in 1..SinglePages |-> 0]
    /\ nodeIdx = [w \in 1..SinglePages |-> 0]
    /\ unit = [u \in SingleUnits |-> "Pending"]
    /\ cause = [u \in SingleUnits |-> "none"]
    /\ logLines = [u \in SingleUnits |-> <<>>]
    /\ chClosed = FALSE
    /\ panicked = FALSE
    /\ cpc = "range"
    /\ prop = NoProp
    /\ mu = "free"
    /\ propertiesCollected = <<>>
    /\ sent = <<>>
    /\ reqLog = [s \in {Nepal} |-> <<>>]
    /\ file = <<>>
    /\ saved = <<>>
    /\ logged = -1
    /\ exitStatus = -1
    /\ now = 0
    /\ properties = [w \in 1..SinglePages |-> <<>>]
    /\ text = <<>>
    /\ out = NoOut
    /\ PipelineInit

\* wg.Add(1); go func(page int) {...}(i); then time.Sleep starts.
SingleSpawn ==
    /\ Running
    /\ mainPc = "spawn"
    /\ wg' = wg + 1
    /\ pc' = [pc EXCEPT ![spawnIdx] = "start"]
    /\ mainPc' = "stagger"
    /\ UNCHANGED <<spawnIdx, page, res, nodeCnt, nodeIdx, unit, cause,
                   logLines, chClosed, panicked, reqLog, file, saved, logged,
                   exitStatus, sent>>
    /\ UNCHANGED collVars
    /\ UNCHANGED auxVars

\* time.Sleep(2 * time.Second) in the spawn loop is over; i++.
SingleStagger ==
    /\ Running
    /\ mainPc = "stagger"
    /\ spawnIdx' = spawnIdx + 1
    /\ mainPc' = IF spawnIdx = SinglePages THEN "wait" ELSE "spawn"
    /\ UNCHANGED <<wg, chClosed, panicked, sent, file, saved, logged,
                   exitStatus>>
    /\ UNCHANGED workVars
    /\ UNCHANGED collVars
    /\ UNCHANGED auxVars

\* scrapePage returned an error: log it, return from the goroutine.
PageFail(w, c) ==
    /\ unit' = [unit EXCEPT ![<<Nepal, w>>] = "Failed"]
    /\ cause' = [cause EXCEPT ![<<Nepal, w>>] = c]
    /\ logLines' = [logLines EXCEPT
                       ![<<Nepal, w>>] = Append(@, FailureLine(c))]
    /\ res' = [res EXCEPT ![w] = 0]
    /\ pc' = [pc EXCEPT ![w] = "ret"]

\* The page goroutine logs "Scraping page" and scrapePage issues http.Get.
PageRequest(w) ==
    /\ Running
    /\ pc[w] = "start"
    /\ unit' = [unit EXCEPT ![<<Nepal, w>>] = "Fetching"]
    /\ logLines' = [logLines EXCEPT ![<<Nepal, w>>] = Append(@, StartLine)]
    /\ reqLog' = [reqLog EXCEPT ![Nepal] = Append(reqLog[Nepal], "req")]
    /\ pc' = [pc EXCEPT ![w] = "get"]
    /\ UNCHANGED <<page, res, nodeCnt, nodeIdx, cause, wg, chClosed, panicked,
                   sent>>
    /\ UNCHANGED mainVars
    /\ UNCHANGED collVars
    /\ UNCHANGED auxVars

\* http.Get returns: a transport error, or a response with some status.
PageGet(w) ==
    /\ Running
    /\ pc[w] = "get"
    /\ \/ PageFail(w, "transport")
       \/ /\ \E st \in {200, 404} : res' = [res EXCEPT ![w] = st]
          /\ pc' = [pc EXCEPT ![w] = "status"]
          /\ UNCHANGED <<unit, cause, logLines>>
    /\ UNCHANGED <<page, nodeCnt, nodeIdx, reqLog, wg, chClosed, panicked,
                   sent>>
    /\ UNCHANGED mainVars
    /\ UNCHANGED collVars
    /\ UNCHANGED auxVars

\* if res.StatusCode != 200 { return nil, error }
PageCheckStatus(w) ==
    /\ Running
    /\ pc[w] = "status"
    /\ IF res[w] # 200
       THEN PageFail(w, "status")
       ELSE /\ unit' = [unit EXCEPT ![<<Nepal, w>>] = "Parsing"]
            /\ pc' = [pc EXCEPT ![w] = "parse"]
            /\ UNCHANGED <<res, cause, logLines>>
    /\ UNCHANGED <<page, nodeCnt, nodeIdx, reqLog, wg, chClosed, panicked,
                   sent>>
    /\ UNCHANGED mainVars
    /\ UNCHANGED collVars
    /\ UNCHANGED auxVars

\* goquery.NewDocumentFromReader fails, or the Each callback builds the
\* local slice `properties`, one Property per node, and scrapePage returns it.
PageParse(w) ==
    /\ Running
    /\ pc[w] = "parse"
    /\ \/ /\ PageFail(w, "parse")
          /\ UNCHANGED <<nodeCnt, nodeIdx>>
       \/ /\ \E n \in 0..MaxNodes : nodeCnt' = [nodeCnt EXCEPT ![w] = n]
          /\ nodeIdx' = [nodeIdx EXCEPT ![w] = 0]
          /\ unit' = [unit EXCEPT ![<<Nepal, w>>] = "Extracting"]
          /\ pc' = [pc EXCEPT ![w] = "send"]
          /\ UNCHANGED <<res, cause, logLines>>
    /\ UNCHANGED <<page, reqLog, wg, chClosed, panicked, sent>>
    /\ UNCHANGED mainVars
    /\ UNCHANGED collVars
    /\ UNCHANGED auxVars

\* for _, p := range properties { allProperties <- p }
PageSend(w) ==
    /\ Running
    /\ pc[w] = "send"
    /\ nodeIdx[w] < nodeCnt[w]
    /\ \E t \in Titles, pr \in Prices :
          Deliver([src |-> Nepal, page |-> page[w], idx |-> nodeIdx[w],
                   title |-> t, price |-> pr])
    /\ nodeIdx' = [nodeIdx EXCEPT ![w] = nodeIdx[w] + 1]
    /\ UNCHANGED <<pc, page, res, nodeCnt, unit, cause, logLines, reqLog, wg,
                   chClosed, spawnIdx, file, saved, logged, mu,
                   propertiesCollected>>
    /\ UNCHANGED auxVars

\* The range over properties is over: the goroutine returns.
PageSendDone(w) ==
    /\ Running
    /\ pc[w] = "send"
    /\ nodeIdx[w] = nodeCnt[w]
    /\ unit' = [unit EXCEPT ![<<Nepal, w>>] = "Done"]
    /\ res' = [res EXCEPT ![w] = 0]
    /\ nodeCnt' = [nodeCnt EXCEPT ![w] = 0]
    /\ nodeIdx' = [nodeIdx EXCEPT ![w] = 0]
    /\ pc' = [pc EXCEPT ![w] = "ret"]
    /\ UNCHANGED <<page, cause, logLines, reqLog, wg, chClosed, panicked,
                   sent>>
    /\ UNCHANGED mainVars
    /\ UNCHANGED collVars
    /\ UNCHANGED auxVars

NextSingle ==
    \/ SingleSpawn
    \/ SingleStagger
    \/ MainWait
    \/ MainClose
    \/ MainSleep
    \/ MarshalBegin
    \/ MarshalEnd
    \/ MainSave
    \/ CountBegin
    \/ LogSummary
    \/ CollectorLock
    \/ AppendBegin
    \/ AppendEnd
    \/ CollectorUnlock
    \/ CollectorExit
    \/ \E w \in 1..SinglePages :
          \/ PageRequest(w)
          \/ PageGet(w)
          \/ PageCheckStatus(w)
          \/ PageParse(w)
          \/ PageSend(w)
          \/ PageSendDone(w)
          \/ GoroutineExit(w)

SpecSingle == InitSingle /\ [][NextSingle]_vars


\* ------------------------------------------------------------------------
\* Identifiers (scraper.go 344-345, 395-399, 672-676).  SpecIds and
\* SpecSingleIds are Spec and SpecSingle with the identifier of every
\* Property and the clock it is made from.
\* ------------------------------------------------------------------------

\* Largest clock reading that two reads of time.Now() in a row can reach by
\* themselves; sleeping always moves the clock on.
MaxClock == 1

\* Text of the node's `code, .property-code` element: absent or empty, or a
\* listing code.
Codes == {"", "A"}

\* What time.Now().UnixNano() can return after a reading of `now`: the same
\* value again, or a later one.
Readings == {t \in now..(now + 1) : t = now \/ t <= MaxClock}

\* fmt.Sprintf("<prefix>%d-%d", time.Now().UnixNano(), i)
FallbackID(prefix, t, i) == [prefix |-> prefix, t |-> t, i |-> i, code |-> ""]

\* An identifier taken from the page.
ProvidedID(c) == [prefix |-> "", t |-> 0, i |-> 0, code |-> c]

\* The empty string as an identifier.
EmptyID == ProvidedID("")

\* id := strings.TrimSpace(codeElement.Text()); if id == "" { fallback }
NepalID(c, t, i) == IF c = "" THEN FallbackID("nepal-", t, i) ELSE ProvidedID(c)

\* id := fmt.Sprintf("dubai-%d-%d", time.Now().UnixNano(), i)
DubaiID(t, i) == FallbackID("dubai-", t, i)

\* The same in scrapePage, with the prefix "property-".
PageID(c, t, i) ==
    IF c = "" THEN FallbackID("property-", t, i) ELSE ProvidedID(c)

\* The Each callback of scrapeNepalProperties with the identifier it builds.
NepalEachIds(s) ==
    /\ Running
    /\ Runnable(s)
    /\ pc[s] = "each"
    /\ nodeIdx[s] < nodeCnt[s]
    /\ \E t \in Readings, c \in Codes, ti \in Titles, pr \in Prices :
          /\ now' = t
          /\ Deliver([src |-> s, page |-> page[s], idx |-> nodeIdx[s],
                      title |-> ti, price |-> pr,
                      id |-> NepalID(c, t, nodeIdx[s])])
    /\ nodeIdx' = [nodeIdx EXCEPT ![s] = nodeIdx[s] + 1]
    /\ UNCHANGED <<pc, page, res, nodeCnt, unit, cause, logLines, reqLog, wg,
                   chClosed, spawnIdx, file, saved, logged, mu,
                   propertiesCollected>>
    /\ UNCHANGED <<properties, text, out>>
    /\ UNCHANGED pipeVars

\* The 2-second sleep of scrapeNepalProperties, during which the clock moves.
NepalSleepIds(s) ==
    /\ Running
    /\ pc[s] = "sleep"
    /\ now' = now + 1
    /\ reqLog' = [reqLog EXCEPT ![s] = Append(reqLog[s], "sleep")]
    /\ page' = [page EXCEPT ![s] = page[s] + 1]
    /\ pc' = [pc EXCEPT ![s] = "loop"]
    /\ UNCHANGED <<res, nodeCnt, nodeIdx, unit, cause, logLines, wg, chClosed,
                   panicked, sent>>
    /\ UNCHANGED mainVars
    /\ UNCHANGED collVars
    /\ UNCHANGED <<properties, text, out>>
    /\ UNCHANGED pipeVars

\* The Each callback of scrapeDubaiProperties with the identifier it builds.
DubaiEachIds(s) ==
    /\ Running
    /\ Runnable(s)
    /\ pc[s] = "d_each"
    /\ nodeIdx[s] < nodeCnt[s]
    /\ \E t \in Readings, ti \in Titles, pr \in Prices :
          /\ now' = t
          /\ IF ti # "" /\ pr > 0
             THEN Deliver([src |-> s, page |-> 1, idx |-> nodeIdx[s],
                           title |-> ti, price |-> pr,
                           id |-> DubaiID(t, nodeIdx[s])])
             ELSE UNCHANGED <<panicked, mainPc, exitStatus, cpc, prop, sent>>
    /\ nodeIdx' = [nodeIdx EXCEPT ![s] = nodeIdx[s] + 1]
    /\ UNCHANGED <<pc, page, res, nodeCnt, unit, cause, logLines, reqLog, wg,
                   chClosed, spawnIdx, file, saved, logged, mu,
                   propertiesCollected>>
    /\ UNCHANGED <<properties, text, out>>
    /\ UNCHANGED pipeVars

NextIds ==
    \/ MainSpawn
    \/ MainWait
    \/ MainClose
    \/ MainSleep
    \/ MarshalBegin
    \/ MarshalEnd
    \/ MainSave
    \/ CountBegin
    \/ LogSummary
    \/ CollectorLock
    \/ AppendBegin
    \/ AppendEnd
    \/ CollectorUnlock
    \/ CollectorExit
    \/ \E s \in Sources :
          \/ WorkerStart(s)
          \/ GoroutineExit(s)
          \/ NepalRequest(s)
          \/ NepalLoopExit(s)
          \/ NepalGet(s)
          \/ NepalCheckStatus(s)
          \/ NepalParse(s)
          \/ NepalEachIds(s)
          \/ NepalEachDone(s)
          \/ NepalSleepIds(s)
          \/ DubaiRequest(s)
          \/ DubaiGet(s)
          \/ DubaiCheckStatus(s)
          \/ DubaiParse(s)
          \/ DubaiEachIds(s)
          \/ DubaiEachDone(s)

SpecIds == Init /\ [][NextIds]_vars

\* The non-decreasing clock readings of the n runs of scrapePage's Each
\* callback.
ReadingSeqs(n) ==
    {q \in [1..n -> now..(now + 1)] :
        /\ \A k \in 1..n : q[k] = now \/ q[k] <= MaxClock
        /\ \A k \in 1..(n - 1) : q[k] <= q[k + 1]}

\* time.Sleep(2 * time.Second) in the spawn loop, during which the clock
\* moves.
SingleStaggerIds ==
    /\ Running
    /\ mainPc = "stagger"
    /\ now' = now + 1
    /\ spawnIdx' = spawnIdx + 1
    /\ mainPc' = IF spawnIdx = SinglePages THEN "wait" ELSE "spawn"
    /\ UNCHANGED <<wg, chClosed, panicked, sent, file, saved, logged,
                   exitStatus>>
    /\ UNCHANGED workVars
    /\ UNCHANGED collVars
    /\ UNCHANGED <<properties, text, out>>
    /\ UNCHANGED pipeVars

\* scrapePage from goquery.NewDocumentFromReader on: the Each callback gives
\* every node its identifier and appends the Property to `properties`.
PageParseIds(w) ==
    /\ Running
    /\ pc[w] = "parse"
    /\ \/ /\ PageFail(w, "parse")
          /\ UNCHANGED <<nodeCnt, nodeIdx, now, properties>>
       \/ /\ \E n \in 0..MaxNodes :
                /\ nodeCnt' = [nodeCnt EXCEPT ![w] = n]
                /\ \E q \in ReadingSeqs(n), cs \in [1..n -> Codes] :
                      /\ properties' =
                            [properties EXCEPT
                                ![w] = [k \in 1..n |->
                                           PageID(cs[k], q[k], k - 1)]]
                      /\ now' = IF n = 0 THEN now ELSE q[n]
          /\ nodeIdx' = [nodeIdx EXCEPT ![w] = 0]
          /\ unit' = [unit EXCEPT ![<<Nepal, w>>] = "Extracting"]
          /\ pc' = [pc EXCEPT ![w] = "send"]
          /\ UNCHANGED <<res, cause, logLines>>
    /\ UNCHANGED <<page, reqLog, wg, chClosed, panicked, sent>>
    /\ UNCHANGED mainVars
    /\ UNCHANGED collVars
    /\ UNCHANGED <<text, out>>
    /\ UNCHANGED pipeVars

\* for _, p := range properties { allProperties <- p }
PageSendIds(w) ==
    /\ Running
    /\ pc[w] = "send"
    /\ nodeIdx[w] < nodeCnt[w]
    /\ \E ti \in Titles, pr \in Prices :
          Deliver([src |-> Nepal, page |-> page[w], idx |-> nodeIdx[w],
                   title |-> ti, price |-> pr,
                   id |-> properties[w][nodeIdx[w] + 1]])
    /\ nodeIdx' = [nodeIdx EXCEPT ![w] = nodeIdx[w] + 1]
    /\ UNCHANGED <<pc, page, res, nodeCnt, unit, cause, logLines, reqLog, wg,
                   chClosed, spawnIdx, file, saved, logged, mu,
                   propertiesCollected>>
    /\ UNCHANGED auxVars

NextSingleIds ==
    \/ SingleSpawn
    \/ SingleStaggerIds
    \/ MainWait
    \/ MainClose
    \/ MainSleep
    \/ MarshalBegin
    \/ MarshalEnd
    \/ MainSave
    \/ CountBegin
    \/ LogSummary
    \/ CollectorLock
    \/ AppendBegin
    \/ AppendEnd
    \/ CollectorUnlock
    \/ CollectorExit
    \/ \E w \in 1..SinglePages :
          \/ PageRequest(w)
          \/ PageGet(w)
          \/ PageCheckStatus(w)
          \/ PageParseIds(w)
          \/ PageSendIds(w)
          \/ PageSendDone(w)
          \/ GoroutineExit(w)

SpecSingleIds == InitSingle /\ [][NextSingleIds]_vars


\* ------------------------------------------------------------------------
\* Field normalizers (scraper.go 456-548) and the bodies of the two Each
\* callbacks (314-366, 392-450) as functions of the node they are given.
\* Strings are sequences of one-character strings.  SpecNorm draws a node text
\* and applies them to it.
\* ------------------------------------------------------------------------

\* Longest node text, in tokens.
MaxText == 2

\* The pieces node texts are made of.
Tokens == {<<"1">>, <<"2">>, <<".">>, <<",">>, <<" ">>, <<"$">>,
           <<"A", "E", "D">>, <<"R", "s">>, <<"R", "s", ".", " ">>, <<"B", "e", "d">>, <<"B", "a", "t", "h">>, <<"s", "q", "f", "t">>, <<"m", "2">>}

Texts == UNION {[1..n -> Tokens] : n \in 0..MaxText}

DigitStr == <<"0", "1", "2", "3", "4", "5", "6", "7", "8", "9">>

\* \d
Digit == {DigitStr[k] : k \in 1..10}

\* [A-Z]
Upper == {"A", "B", "C", "D", "E", "F", "G", "H", "I", "J", "K", "L", "M",
          "N", "O", "P", "Q", "R", "S", "T", "U", "V", "W", "X", "Y", "Z"}

\* \s, and what strings.TrimSpace cuts
Space == {" "}

\* [A-Z$...] of parsePrice
CurrencyChar == Upper \cup {"$"}

\* [\d.]
DigitDot == Digit \cup {"."}

RECURSIVE Flatten(_)
\* The text of a sequence of tokens.
Flatten(ts) == IF ts = <<>> THEN <<>> ELSE Head(ts) \o Flatten(Tail(ts))

Min(S) == CHOOSE x \in S : \A y \in S : x <= y

\* A greedy class*: the position after the longest run of `class` at p.
RunEnd(c, p, class) ==
    CHOOSE q \in p..(Len(c) + 1) :
        /\ \A k \in p..(q - 1) : c[k] \in class
        /\ q = Len(c) + 1 \/ c[q] \notin class

\* The literal lit stands at position p of c.
LitAt(c, p, lit) ==
    /\ p + Len(lit) - 1 <= Len(c)
    /\ \A k \in 1..Len(lit) : c[p + k - 1] = lit[k]

\* strings.HasPrefix
HasPrefix(c, lit) == LitAt(c, 1, lit)

\* strings.Contains, for a non-empty lit
Contains(c, lit) == \E p \in 1..Len(c) : LitAt(c, p, lit)

NotComma(ch) == ch # ","

\* strings.ReplaceAll(priceStr, ",", "")
RemoveCommas(c) == SelectSeq(c, NotComma)

\* strings.TrimSpace
TrimSpace(c) ==
    LET a == RunEnd(c, 1, Space)
    IN  IF a > Len(c)
        THEN <<>>
        ELSE LET b == CHOOSE q \in a..Len(c) :
                          /\ c[q] \notin Space
                          /\ \A k \in (q + 1)..Len(c) : c[k] \in Space
             IN  SubSeq(c, a, b)

\* A float64 as a decimal: m / 10^e, with no trailing zero in the fraction.
ZeroDec == [m |-> 0, e |-> 0]

RECURSIVE Norm(_, _)
Norm(m, e) ==
    IF e > 0 /\ m % 10 = 0 THEN Norm(m \div 10, e - 1) ELSE [m |-> m, e |-> e]

DigitVal(ch) == CHOOSE d \in 0..9 : DigitStr[d + 1] = ch

RECURSIVE NatOf(_)
\* The number a string of digits writes.
NatOf(ds) ==
    IF ds = <<>>
    THEN 0
    ELSE NatOf(SubSeq(ds, 1, Len(ds) - 1)) * 10 + DigitVal(ds[Len(ds)])

IsDigit(ch) == ch \in Digit

IsDot(ch) == ch = "."

\* strconv.ParseFloat(g, 64) for g made of digits and dots: an error unless g
\* has a digit and at most one dot.
ParseFloat(g) ==
    LET ds   == SelectSeq(g, IsDigit)
        dots == Len(SelectSeq(g, IsDot))
        dot  == CHOOSE k \in 1..Len(g) : g[k] = "."
        ok   == Len(ds) >= 1 /\ dots <= 1
    IN  [ok  |-> ok,
         val |-> IF ~ok THEN ZeroDec
                 ELSE IF dots = 0 THEN Norm(NatOf(ds), 0)
                 ELSE Norm(NatOf(ds), Len(g) - dot)]

\* strconv.Atoi(g) for g a non-empty string of digits.
Atoi(g) == [ok |-> TRUE, val |-> NatOf(g)]

\* area * 10.764
TimesSqFtPerM2(v) == Norm(v.m * 10764, v.e + 3)

\* `([A-Z$...]+)?\s*([\d.]+)` matches from position i of c: after the longest
\* run of currency characters and of white space a digit or dot must follow.
PriceMatchAt(c, i) ==
    LET a == RunEnd(c, i, CurrencyChar)
        b == RunEnd(c, a, Space)
    IN  b <= Len(c) /\ c[b] \in DigitDot

\* parsePrice (scraper.go 536-548): the leftmost match decides.
parsePrice(priceStr) ==
    LET c == RemoveCommas(priceStr)
        I == {i \in 1..Len(c) : PriceMatchAt(c, i)}
    IN  IF I = {}
        THEN [price |-> ZeroDec, currency |-> <<>>]
        ELSE LET i == Min(I)
                 a == RunEnd(c, i, CurrencyChar)
                 b == RunEnd(c, a, Space)
                 currency == TrimSpace(SubSeq(c, i, a - 1))
                 price == ParseFloat(SubSeq(c, b, RunEnd(c, b, DigitDot) - 1))
             IN  IF price.ok
                 THEN [price |-> price.val, currency |-> currency]
                 ELSE [price |-> ZeroDec, currency |-> <<>>]

\* Position of the number when `([A-Z]{3})\s*\$?\s*([\d.]+)` matches from
\* position i of c, 0 when it does not.
DubaiPriceNumberAt(c, i) ==
    IF ~(i + 2 <= Len(c) /\ \A k \in i..(i + 2) : c[k] \in Upper)
    THEN 0
    ELSE LET a == RunEnd(c, i + 3, Space)
             b == IF a <= Len(c) /\ c[a] = "$" THEN a + 1 ELSE a
             d == RunEnd(c, b, Space)
         IN  IF d <= Len(c) /\ c[d] \in DigitDot THEN d ELSE 0

\* parseDubaiPrice (scraper.go 457-470)
parseDubaiPrice(priceStr) ==
    LET c == RemoveCommas(priceStr)
        I == {i \in 1..Len(c) : DubaiPriceNumberAt(c, i) > 0}
    IN  IF I = {}
        THEN [price |-> ZeroDec, currency |-> <<>>]
        ELSE LET i == Min(I)
                 d == DubaiPriceNumberAt(c, i)
                 currency == TrimSpace(SubSeq(c, i, i + 2))
                 price == ParseFloat(SubSeq(c, d, RunEnd(c, d, DigitDot) - 1))
             IN  IF price.ok
                 THEN [price |-> price.val, currency |-> currency]
                 ELSE [price |-> ZeroDec, currency |-> <<>>]

\* `(\d+)\s*<lit>` matches from position i of c.
CountMatchAt(c, i, lit) ==
    /\ c[i] \in Digit
    /\ LitAt(c, RunEnd(c, RunEnd(c, i, Digit), Space), lit)

\* Group 1 of the leftmost match of `(\d+)\s*<lit>` in c, <<>> without one.
CountBefore(c, lit) ==
    LET I == {i \in 1..Len(c) : CountMatchAt(c, i, lit)}
    IN  IF I = {} THEN <<>>
        ELSE SubSeq(c, Min(I), RunEnd(c, Min(I), Digit) - 1)

\* extractBedrooms reporting a miss as -1.
extractBedroomsMissFails(c) ==
    LET g == CountBefore(c, <<"B", "e", "d">>)
    IN  IF g = <<>> THEN -1 ELSE Atoi(g).val

\* extractBedrooms (scraper.go 502-511)
extractBedrooms(c) ==
    LET g == CountBefore(c, <<"B", "e", "d">>)
    IN  IF g # <<>> /\ Atoi(g).ok THEN Atoi(g).val ELSE 0

\* extractBathrooms (scraper.go 513-522)
extractBathrooms(c) ==
    LET g == CountBefore(c, <<"B", "a", "t", "h">>)
    IN  IF g # <<>> /\ Atoi(g).ok THEN Atoi(g).val ELSE 0

\* End of `\d+(?:\.\d+)?` taken greedily from the digit at position i.
DecimalEnd(c, i) ==
    LET a == RunEnd(c, i, Digit)
    IN  IF a + 1 <= Len(c) /\ c[a] = "." /\ c[a + 1] \in Digit
        THEN RunEnd(c, a + 1, Digit)
        ELSE a

\* `(\d+(?:\.\d+)?)\s*<lit>` matches from position i of c.
MeasureMatchAt(c, i, lit) ==
    /\ c[i] \in Digit
    /\ LitAt(c, RunEnd(c, DecimalEnd(c, i), Space), lit)

\* Group 1 of the leftmost match of `(\d+(?:\.\d+)?)\s*<lit>`, <<>> without
\* one.
MeasureBefore(c, lit) ==
    LET I == {i \in 1..Len(c) : MeasureMatchAt(c, i, lit)}
    IN  IF I = {} THEN <<>>
        ELSE SubSeq(c, Min(I), DecimalEnd(c, Min(I)) - 1)

\* extractArea (scraper.go 524-533)
extractArea(c) ==
    LET g == MeasureBefore(c, <<"s", "q", "f", "t">>)
    IN  IF g # <<>> /\ ParseFloat(g).ok THEN ParseFloat(g).val ELSE ZeroDec

\* Faulty variant of extractDubaiArea: the compiled pattern is a package
\* variable that remembers where its last match ended, so a call made after
\* another call has returned finds nothing.
extractDubaiAreaResumes(c) ==
    IF /\ "call" \in DOMAIN out
       /\ \E w \in DOMAIN out.call : out.call[w].pc = "returned"
    THEN ZeroDec
    ELSE LET g == MeasureBefore(c, <<"m", "2">>)
         IN  IF g # <<>> /\ ParseFloat(g).ok
             THEN TimesSqFtPerM2(ParseFloat(g).val)
             ELSE ZeroDec

\* extractDubaiArea (scraper.go 488-499)
extractDubaiArea(c) ==
    LET g == MeasureBefore(c, <<"m", "2">>)
    IN  IF g # <<>> /\ ParseFloat(g).ok
        THEN TimesSqFtPerM2(ParseFloat(g).val)
        ELSE ZeroDec

\* "https://www.realestateinnepal.com"
NepalOrigin ==
    <<"h", "t", "t", "p", "s", ":", "/", "/", "w", "w", "w", ".",
      "r", "e", "a", "l", "e", "s", "t", "a", "t", "e", "i", "n",
      "n", "e", "p", "a", "l", ".", "c", "o", "m">>

\* "https://www.realestate.com.au"
DubaiOrigin ==
    <<"h", "t", "t", "p", "s", ":", "/", "/", "w", "w", "w", ".",
      "r", "e", "a", "l", "e", "s", "t", "a", "t", "e", ".", "c",
      "o", "m", ".", "a", "u">>

\* "/international/ae/"
IntlAe ==
    <<"/", "i", "n", "t", "e", "r", "n", "a", "t", "i", "o", "n",
      "a", "l", "/", "a", "e", "/">>

\* The href of a node's link: none, empty, a path, an absolute URL.
Hrefs ==
    {[exists |-> FALSE, val |-> <<>>],
     [exists |-> TRUE, val |-> <<>>],
     [exists |-> TRUE, val |-> IntlAe \o <<"1">>],
     [exists |-> TRUE, val |-> <<"h", "t", "t", "p", "s", ":", "/", "/", "h">> \o IntlAe \o <<"1">>]}

\* s.Attr("href"): the empty string when there is no such attribute.
Attr(h) == IF h.exists THEN h.val ELSE <<>>

\* The text of the first element a selector finds inside a node whose text
\* is ts: a stretch of it, or "" when the selector finds nothing.
SubTexts(ts) ==
    {<<>>} \cup {SubSeq(ts, a, b) : a \in 1..Len(ts), b \in 1..Len(ts)}

\* Text of the node's location element.
Locations == {"", "L"}

\* scrapeNepalProperties, scraper.go 419-424
NepalURL(h) ==
    LET propertyURL == Attr(h)
    IN  IF propertyURL # <<>> /\ ~HasPrefix(propertyURL, <<"h", "t", "t", "p">>)
        THEN NepalOrigin \o propertyURL
        ELSE propertyURL

\* scrapeDubaiProperties, scraper.go 321-324
DubaiURL(h) ==
    LET propertyURL == Attr(h)
    IN  IF ~HasPrefix(propertyURL, <<"h", "t", "t", "p">>)
        THEN DubaiOrigin \o propertyURL
        ELSE propertyURL

\* description := title, or "title - location" (scraper.go 413-417)
Description(title, location) ==
    IF location # "" /\ location # title
    THEN <<title, " - ", location>>
    ELSE <<title>>

\* The Property the Each callback of scrapeNepalProperties builds from a node
\* (scraper.go 400-448): title and location text, the text of the price
\* element, the link's href and the text of the whole node.
NepalProperty(title, location, priceElem, h, detailsText) ==
    LET priceStr == TrimSpace(priceElem)
        pp == parsePrice(priceStr)
    IN  [Title       |-> title,
         Price       |-> pp.price,
         Currency    |-> pp.currency,
         Location    |-> location,
         Description |-> Description(title, location),
         Bedrooms    |-> extractBedrooms(detailsText),
         Bathrooms   |-> extractBathrooms(detailsText),
         AreaSqFt    |-> extractArea(detailsText),
         URL         |-> NepalURL(h)]

\* The Property of scrapeDubaiProperties' callback (scraper.go 326-361),
\* without Location and Description, which no check of the program reads.
DubaiProperty(heading, priceText, h, fullText) ==
    LET pp == parseDubaiPrice(priceText)
    IN  [Title     |-> IF TrimSpace(fullText) # <<>>
                       THEN TrimSpace(fullText)
                       ELSE heading,
         Price     |-> pp.price,
         Currency  |-> pp.currency,
         Bedrooms  |-> extractBedrooms(fullText),
         AreaSqFt  |-> extractDubaiArea(fullText),
         URL       |-> DubaiURL(h)]

\* The callback returns before building anything (scraper.go 315-318).
DubaiSkips(h) == ~h.exists \/ ~Contains(Attr(h), IntlAe)

\* if prop.Title != "" && prop.Price > 0 (scraper.go 364)
DubaiComplete(p) == p.Title # <<>> /\ p.Price.m > 0

InitNorm ==
    /\ mainPc = "spawn"
    /\ spawnIdx = 1
    /\ wg = 0
    /\ pc = [s \in Sources |-> "none"]
    /\ page = [s \in Sources |-> 1]
    /\ res = [s \in Sources |-> 0]
    /\ nodeCnt = [s \in Sources |-> 0]
    /\ nodeIdx = [s \in Sources |-> 0]
    /\ unit = [u \in Units |-> "Pending"]
    /\ cause = [u \in Units |-> "none"]
    /\ logLines = [u \in Units |-> <<>>]
    /\ chClosed = FALSE
    /\ panicked = FALSE
    /\ cpc = "range"
    /\ prop = NoProp
    /\ mu = "free"
    /\ propertiesCollected = <<>>
    /\ sent = <<>>
    /\ reqLog = [s \in Sources |-> <<>>]
    /\ file = <<>>
    /\ saved = <<>>
    /\ logged = -1
    /\ exitStatus = -1
    /\ now = 0
    /\ properties = <<>>
    /\ text \in Texts
    /\ out = NoOut
    /\ PipelineInit

\* parsePrice applied to the text.
ApplyParsePrice ==
    /\ out = NoOut
    /\ out' = [fn |-> "parsePrice", res |-> parsePrice(Flatten(text))]
    /\ UNCHANGED <<now, properties, text, wg, chClosed, panicked, sent>>
    /\ UNCHANGED mainVars
    /\ UNCHANGED workVars
    /\ UNCHANGED collVars
    /\ UNCHANGED pipeVars

\* parseDubaiPrice applied to the text.
ApplyParseDubaiPrice ==
    /\ out = NoOut
    /\ out' = [fn |-> "parseDubaiPrice",
               res |-> parseDubaiPrice(Flatten(text))]
    /\ UNCHANGED <<now, properties, text, wg, chClosed, panicked, sent>>
    /\ UNCHANGED mainVars
    /\ UNCHANGED workVars
    /\ UNCHANGED collVars
    /\ UNCHANGED pipeVars

\* The Each callback of scrapeNepalProperties on a node whose text is `text`:
\* it always builds a Property and sends it.
NepalNode ==
    /\ out = NoOut
    /\ \E ti \in Titles, loc \in Locations, pe \in SubTexts(text),
          h \in Hrefs :
          out' = [fn      |-> "nepal",
                  node    |-> [title |-> ti, location |-> loc,
                               price |-> Flatten(pe), href |-> h],
                  emitted |-> <<NepalProperty(ti, loc, Flatten(pe), h,
                                              Flatten(text))>>]
    /\ UNCHANGED <<now, properties, text, wg, chClosed, panicked, sent>>
    /\ UNCHANGED mainVars
    /\ UNCHANGED workVars
    /\ UNCHANGED collVars
    /\ UNCHANGED pipeVars

\* The Each callback of scrapeDubaiProperties on a node whose text is `text`:
\* nothing is sent for a node without a matching href or without title or
\* price.
DubaiNode ==
    /\ out = NoOut
    /\ \E pe \in SubTexts(text), h \in Hrefs,
          he \in IF TrimSpace(Flatten(text)) = <<>>
                 THEN SubTexts(text) ELSE {<<>>} :
          LET p == DubaiProperty(Flatten(he), Flatten(pe), h, Flatten(text))
          IN  out' = [fn      |-> "dubai",
                      node    |-> [heading |-> Flatten(he),
                                   price |-> Flatten(pe), href |-> h],
                      emitted |-> IF ~DubaiSkips(h) /\ DubaiComplete(p)
                                  THEN <<p>> ELSE <<>>]
    /\ UNCHANGED <<now, properties, text, wg, chClosed, panicked, sent>>
    /\ UNCHANGED mainVars
    /\ UNCHANGED workVars
    /\ UNCHANGED collVars
    /\ UNCHANGED pipeVars

NextNorm ==
    \/ ApplyParsePrice
    \/ ApplyParseDubaiPrice
    \/ NepalNode
    \/ DubaiNode

SpecNorm == InitNorm /\ [][NextNorm]_vars


\* ------------------------------------------------------------------------
\* Two calls of one field normalizer on the same text, one from each source's
\* goroutine (extractBedrooms is called by both strategies, scraper.go 341
\* and 431).  A call compiles its pattern into the local `re`, matches and
\* returns; SpecTwice interleaves the two calls in every way.
\* ------------------------------------------------------------------------

Normalizers == {"parsePrice", "parseDubaiPrice", "extractBedrooms",
                "extractBathrooms", "extractArea", "extractDubaiArea"}

\* A caller that has not called yet.
NotCalled == [pc |-> "idle", re |-> "", ret |-> <<>>]

\* The value normalizer f returns for the text c.
Apply(f, c) ==
    CASE f = "parsePrice" -> parsePrice(c)
      [] f = "parseDubaiPrice" -> parseDubaiPrice(c)
      [] f = "extractBedrooms" -> extractBedrooms(c)
      [] f = "extractBathrooms" -> extractBathrooms(c)
      [] f = "extractArea" -> extractArea(c)
      [] f = "extractDubaiArea" -> extractDubaiArea(c)

\* Caller w enters normalizer f with the text as argument:
\* re := regexp.MustCompile(...) builds the call's own pattern.
NormalizerCall(w) ==
    /\ \E f \in Normalizers :
          /\ out = NoOut \/ (out.fn = f /\ out.call[w].pc = "idle")
          /\ out' = [fn   |-> f,
                     call |-> [v \in Sources |->
                                 IF v = w
                                 THEN [pc |-> "matching", re |-> f,
                                       ret |-> <<>>]
                                 ELSE IF out = NoOut THEN NotCalled
                                 ELSE out.call[v]]]
    /\ UNCHANGED <<now, properties, text, wg, chClosed, panicked, sent>>
    /\ UNCHANGED mainVars
    /\ UNCHANGED workVars
    /\ UNCHANGED collVars
    /\ UNCHANGED pipeVars

\* re.FindStringSubmatch, the conversion of the match, and the return.
NormalizerReturn(w) ==
    /\ out # NoOut
    /\ out.call[w].pc = "matching"
    /\ out' = [out EXCEPT
                  !.call[w] = [pc  |-> "returned", re |-> "",
                               ret |-> <<Apply(out.call[w].re,
                                               Flatten(text))>>]]
    /\ UNCHANGED <<now, properties, text, wg, chClosed, panicked, sent>>
    /\ UNCHANGED mainVars
    /\ UNCHANGED workVars
    /\ UNCHANGED collVars
    /\ UNCHANGED pipeVars

NextTwice ==
    \E w \in Sources :
        \/ NormalizerCall(w)
        \/ NormalizerReturn(w)

SpecTwice == InitNorm /\ [][NextTwice]_vars

\* ========================================================================
\* The pipeline orchestrator (pipeline/pipeline.go)
\* ========================================================================

\* The five steps main runs, in the order of its code (pipeline.go 41-84).
Steps == <<"scraper.go", "extract.py", "linkage.py", "knowledge_graph.py",
           "rag.py">>

\* Most lines a child process writes to the stdout it shares with main.
MaxOutput == 1

\* Exit statuses of a child process.
ExitCodes == {0, 1, 2}

Line(kind, k) == [kind |-> kind, step |-> k]

FinalLine == Line("finished successfully", 0)

\* cmd.Run() returned a non-nil error: the command did not start, or it
\* exited with a non-zero status.
Failed(c) == c.state = "nostart" \/ (c.state = "exited" /\ c.code # 0)

scraperVars == <<mainVars, workVars, collVars, wg, chClosed, panicked, sent,
                now, properties, text, out>>

\* main up to the first step: the opening line, os.Getwd (log.Fatalf when it
\* fails), the paths, the line of step 1.
PipelineBegin ==
    /\ pipePc = "start"
    /\ \E ok \in BOOLEAN :
          IF ok
          THEN /\ pipeLog' = <<Line("starting", 0), Line("header", 1)>>
               /\ step' = 1
               /\ pipePc' = "run"
               /\ UNCHANGED pipeExit
          ELSE /\ pipeLog' = <<Line("starting", 0), Line("getwd failed", 0)>>
               /\ pipePc' = "fatal"
               /\ pipeExit' = 1
               /\ UNCHANGED step
    /\ UNCHANGED cmds
    /\ UNCHANGED scraperVars

\* cmd.Run() starts the child of the step: directly for the scraper, inside
\* runCommand (which logs the command first) for the others. A command that
\* cannot be started makes Run return at once.
RunStart ==
    /\ pipePc = "run"
    /\ \E started \in BOOLEAN :
          /\ cmds' = Append(cmds, [name  |-> Steps[step],
                                   state |-> IF started THEN "running"
                                                        ELSE "nostart",
                                   code  |-> -1,
                                   wrote |-> 0])
          /\ pipePc' = IF started THEN "wait" ELSE "returned"
    /\ pipeLog' = IF step = 1 THEN pipeLog
                              ELSE Append(pipeLog, Line("running command", step))
    /\ UNCHANGED <<step, pipeExit>>
    /\ UNCHANGED scraperVars

\* The running child writes to os.Stdout / os.Stderr, which it shares with
\* main.
ChildWrites ==
    /\ pipePc = "wait"
    /\ cmds[step].wrote < MaxOutput
    /\ cmds' = [cmds EXCEPT ![step].wrote = @ + 1]
    /\ pipeLog' = Append(pipeLog, Line("child output", step))
    /\ UNCHANGED <<pipePc, step, pipeExit>>
    /\ UNCHANGED scraperVars

\* The child exits and cmd.Run() returns; runCommand logs a success.
ChildExits ==
    /\ pipePc = "wait"
    /\ \E code \in ExitCodes :
          /\ cmds' = [cmds EXCEPT ![step].state = "exited",
                                  ![step].code = code]
          /\ pipeLog' = IF code = 0 /\ step # 1
                        THEN Append(pipeLog, Line("command completed", step))
                        ELSE pipeLog
    /\ pipePc' = "returned"
    /\ UNCHANGED <<step, pipeExit>>
    /\ UNCHANGED scraperVars

\* Faulty variant of StepFailed: the failure is logged with log.Printf and
\* main goes on to the next step.
StepFailedGoesOn ==
    /\ pipePc = "returned"
    /\ Failed(cmds[step])
    /\ pipeLog' = Append(pipeLog, Line("failed", step))
    /\ pipePc' = "sleep"
    /\ UNCHANGED <<step, cmds, pipeExit>>
    /\ UNCHANGED scraperVars

\* err != nil: log.Fatalf("... failed: %v", err), exit status 1.
StepFailed ==
    /\ pipePc = "returned"
    /\ Failed(cmds[step])
    /\ pipeLog' = Append(pipeLog, Line("failed", step))
    /\ pipeExit' = 1
    /\ pipePc' = "fatal"
    /\ UNCHANGED <<step, cmds>>
    /\ UNCHANGED scraperVars

\* err == nil: log.Println("... completed.")
StepCompleted ==
    /\ pipePc = "returned"
    /\ ~Failed(cmds[step])
    /\ pipeLog' = Append(pipeLog, Line("completed", step))
    /\ pipePc' = "sleep"
    /\ UNCHANGED <<step, cmds, pipeExit>>
    /\ UNCHANGED scraperVars

\* time.Sleep(1 * time.Second) is over: the line of the next step, or the
\* closing line and the return of main.
StepNext ==
    /\ pipePc = "sleep"
    /\ IF step < Len(Steps)
       THEN /\ pipeLog' = Append(pipeLog, Line("header", step + 1))
            /\ step' = step + 1
            /\ pipePc' = "run"
            /\ UNCHANGED pipeExit
       ELSE /\ pipeLog' = Append(pipeLog, FinalLine)
            /\ pipeExit' = 0
            /\ pipePc' = "done"
            /\ UNCHANGED step
    /\ UNCHANGED cmds
    /\ UNCHANGED scraperVars

NextPipeline ==
    \/ PipelineBegin
    \/ RunStart
    \/ ChildWrites
    \/ ChildExits
    \/ StepFailed
    \/ StepCompleted
    \/ StepNext

SpecPipeline == Init /\ [][NextPipeline]_vars

\* ========================================================================
\* Properties
\* ========================================================================

\* The unit of work a Property was extracted from.
UnitOf(p) == <<p.src, p.page>>

\* wg.Wait() has returned.
PastBarrier == mainPc \notin {"spawn", "stagger", "wait"}

InFlight(u) == unit[u] \in {"Fetching", "Parsing", "Extracting"}

\* C1: no Listing is lost: every Property sent on allProperties is an element
\* of what main reads from propertiesCollected for json.MarshalIndent.
C1_NoListingLost ==
    Len(file) = 1 => \A k \in 1..Len(sent) : sent[k] \in Range(file[1].elems)

\* C2: access to propertiesCollected is serialized: the collector's append
\* never overlaps main's reads (for serialization, for the final count).
C2_AccessSerialized ==
    ~(cpc = "appending" /\ mainPc \in {"marshaling", "counting"})

\* C3: barrier before close: the channel is closed only after every producer
\* goroutine has finished (wg is zero), and no producer sends on a closed
\* channel.
C3_BarrierBeforeClose ==
    /\ chClosed => wg = 0 /\ \A w \in DOMAIN pc : pc[w] = "exited"
    /\ ~panicked

\* Reached: the channel is closed after producers delivered Properties.
C3_Witness == chClosed /\ Len(sent) >= 2

\* C4: failure isolation: when a unit has failed, only that unit is
\* abandoned: by the time all producers are finished every other configured
\* page of the same source has been attempted (has left Pending), and so has
\* every other source.
C4_FailureIsolation ==
    PastBarrier =>
        \A u \in DOMAIN unit :
            unit[u] = "Failed" =>
                /\ \A v \in DOMAIN unit :
                      v[1] = u[1] => unit[v] # "Pending"
                /\ \A v \in DOMAIN unit :
                      v[1] # u[1] =>
                          \E x \in DOMAIN unit :
                              x[1] = v[1] /\ unit[x] # "Pending"

\* C5: completeness under partial failure: if exactly one page fetch failed
\* with a non-2xx status (and serializing and writing succeeded), the
\* process exits 0 and the artifact holds every Property extracted from the
\* other pages.
C5_CompleteUnderPartialFailure ==
    (/\ mainPc = "done"
     /\ Cardinality({u \in DOMAIN unit : unit[u] = "Failed"}) = 1
     /\ \A u \in DOMAIN unit : unit[u] = "Failed" => cause[u] = "status")
    => /\ exitStatus = 0
       /\ Len(saved) = 1
       /\ \A k \in 1..Len(sent) : sent[k] \in Range(saved[1].elems)

\* C6: a failed unit contributes no Listing: no Property that was sent,
\* collected, serialized or written comes from a page whose failure was
\* logged.
C6_FailedUnitContributesNothing ==
    \A p \in Range(sent) \cup Range(propertiesCollected)
             \cup UNION {Range(f.elems) : f \in Range(file) \cup Range(saved)} :
        cause[UnitOf(p)] = "none"

\* Reached: a run with a failed page has written a non-empty artifact.
C6_Witness ==
    /\ mainPc = "done"
    /\ \E u \in DOMAIN unit : unit[u] = "Failed" /\ cause[u] = "status"
    /\ Len(saved) = 1 /\ Len(saved[1].elems) > 0

StageOrder ==
    {<<"Pending", "Fetching">>, <<"Fetching", "Parsing">>,
     <<"Parsing", "Extracting">>, <<"Extracting", "Done">>,
     <<"Fetching", "Failed">>, <<"Parsing", "Failed">>}

\* C7: every unit follows Pending -> Fetching -> Parsing -> Extracting ->
\* Done; Failed is entered only from Fetching or Parsing; from Extracting the
\* only way on is Done; Done and Failed are never left; and once all
\* producers are finished no unit is left in an intermediate stage.
C7_UnitStateMachine ==
    /\ [][\A u \in DOMAIN unit :
             unit'[u] # unit[u] => <<unit[u], unit'[u]>> \in StageOrder]_vars
    /\ [](PastBarrier => \A u \in DOMAIN unit : ~InFlight(u))

\* Reached: after the barrier, one unit is Done with Properties delivered and
\* another has Failed at parsing.
C7_Witness ==
    /\ PastBarrier
    /\ \E u \in DOMAIN unit :
          unit[u] = "Done" /\ \E p \in Range(sent) : UnitOf(p) = u
    /\ \E u \in DOMAIN unit : unit[u] = "Failed" /\ cause[u] = "parse"

\* C8: politeness delay: between any two consecutive requests to the same
\* source the worker performs the 2-second delay, also when the earlier
\* request failed.
C8_PolitenessDelay ==
    \A s \in DOMAIN reqLog :
        \A k \in 1..(Len(reqLog[s]) - 1) :
            ~(reqLog[s][k] = "req" /\ reqLog[s][k + 1] = "req")

\* A step of the producer goroutine of source t.
ProducerStep(t) ==
    \/ WorkerStart(t)
    \/ GoroutineExit(t)
    \/ NepalRequest(t)
    \/ NepalLoopExit(t)
    \/ NepalGet(t)
    \/ NepalCheckStatus(t)
    \/ NepalParse(t)
    \/ NepalEach(t)
    \/ NepalEachDone(t)
    \/ DubaiRequest(t)
    \/ DubaiGet(t)
    \/ DubaiCheckStatus(t)
    \/ DubaiParse(t)
    \/ DubaiEach(t)
    \/ DubaiEachDone(t)

\* The producer of t has a next statement, and if that is a send, the
\* collector is waiting to receive.
ReadyToStep(t) ==
    /\ pc[t] \notin {"none", "exited", "sleep"}
    /\ (pc[t] \in {"each", "d_each"} /\ nodeIdx[t] < nodeCnt[t])
          => cpc = "range"

\* C9: the rate-limit delay of one source blocks only that source's worker:
\* while one source is in its delay, the producer of any other source can
\* take its next step (fetch, extract, deliver).
C9_DelayBlocksOnlyCaller ==
    \A s \in DOMAIN pc : \A t \in DOMAIN pc :
        (s # t /\ Running /\ pc[s] = "sleep" /\ ReadyToStep(t))
            => ENABLED ProducerStep(t)

\* Reached: one source is in its delay while the other is about to deliver a
\* Property to the waiting collector.
C9_Witness ==
    /\ Running
    /\ pc[Nepal] = "sleep"
    /\ pc[Dubai] = "d_each" /\ nodeIdx[Dubai] < nodeCnt[Dubai]
    /\ cpc = "range"

\* C10: within a source pages are visited sequentially: a page of a source
\* is requested only after every earlier page of that source has finished
\* (Done or Failed), so no two fetches of one source are in flight.
C10_PagesSequential ==
    \A u \in DOMAIN unit : \A v \in DOMAIN unit :
        (u[1] = v[1] /\ u[2] < v[2] /\ unit[v] # "Pending")
            => unit[u] \in {"Done", "Failed"}

\* Number of HTTP requests issued to source s so far.
Requests(s) ==
    Cardinality({k \in 1..Len(reqLog[s]) : reqLog[s][k] = "req"})

\* C11: the source task drives its configured page count: once all producers
\* are finished, the number of page fetch attempts made for a source equals
\* that source's PagesToScrape (2 for Nepal, 3 for Dubai).
C11_PageCountDriven ==
    PastBarrier => \A s \in DOMAIN reqLog : Requests(s) = PagesToScrape(s)

\* C14: if zero Listings were collected, the serialized artifact is the empty
\* JSON array, not null.
C14_EmptyArrayWhenNothingCollected ==
    (Len(file) = 1 /\ Len(file[1].elems) = 0) => file[1].kind = "array"

\* C15: the artifact is written at most once per run (once written it never
\* changes), and only after every source task has completed and the channel
\* has been closed.
C15_WrittenOnceAfterAll ==
    /\ [][saved # <<>> => saved' = saved]_vars
    /\ [](saved # <<>> =>
            /\ chClosed
            /\ wg = 0
            /\ \A w \in DOMAIN pc : pc[w] = "exited"
            /\ \A u \in DOMAIN unit : ~InFlight(u))

\* Reached: the artifact is written after both sources finished a page.
C15_Witness ==
    /\ saved # <<>>
    /\ unit[<<Nepal, 1>>] = "Done"
    /\ unit[<<Dubai, 1>>] = "Done"

\* C16: the exit status is non-zero iff serializing or persisting the final
\* collection failed, which happens only after all producers finished and
\* leaves nothing written; a run that reaches the end of main, whatever the
\* number of failed pages, has written the artifact and exits 0.
C16_ExitStatus ==
    /\ exitStatus \in {-1, 0, 1}
    /\ exitStatus = -1 <=> Running
    /\ exitStatus = 0 <=> mainPc = "done"
    /\ exitStatus = 0 => saved # <<>>
    /\ exitStatus = 1 =>
          /\ mainPc = "fatal"
          /\ chClosed
          /\ \A w \in DOMAIN pc : pc[w] = "exited"
          /\ saved = <<>>

\* Reached: every attempted page failed, and the run still wrote the
\* artifact and exited 0.
C16_Witness ==
    /\ exitStatus = 0
    /\ saved # <<>>
    /\ unit[<<Nepal, 1>>] = "Failed"
    /\ unit[<<Nepal, 2>>] = "Failed"
    /\ unit[<<Dubai, 1>>] = "Failed"

\* C12: every Listing in the final collection has a non-empty identifier
\* that is unique within the run, whether source-provided or generated.
C12_UniqueNonEmptyIds ==
    \A i \in 1..Len(propertiesCollected) :
        /\ propertiesCollected[i].id # EmptyID
        /\ \A j \in 1..Len(propertiesCollected) :
              i # j => propertiesCollected[i].id # propertiesCollected[j].id

\* C13: when the page workers of one source run concurrently and no node
\* carries a source-provided identifier, the generated fallback identifiers
\* are pairwise distinct across the run.
C13_FallbackIdsDistinct ==
    (\A i \in 1..Len(sent) : sent[i].id.code = "")
    => \A i \in 1..Len(sent) : \A j \in 1..Len(sent) :
          i # j => sent[i].id # sent[j].id

\* An absolute http(s) URL.
IsAbsoluteURL(u) ==
    \/ HasPrefix(u, <<"h", "t", "t", "p", ":", "/", "/">>)
    \/ HasPrefix(u, <<"h", "t", "t", "p", "s", ":", "/", "/">>)

\* C17: every Listing sent by a source strategy has an absolute URL, whether
\* the node's href is absent, empty, relative or already absolute: it begins
\* with the source's base origin or is an absolute http(s) URL.
C17_EmittedUrlAbsolute ==
    out.fn \in {"nepal", "dubai"} =>
        \A k \in 1..Len(out.emitted) :
            \/ IsAbsoluteURL(out.emitted[k].URL)
            \/ HasPrefix(out.emitted[k].URL,
                         IF out.fn = "nepal" THEN NepalOrigin
                                             ELSE DubaiOrigin)

\* Where the numeric tokens of c start: the longest stretches of digits and
\* dots that hold a digit.
NumberStarts(c) ==
    {p \in 1..Len(c) :
        /\ c[p] \in DigitDot
        /\ p = 1 \/ c[p - 1] \notin DigitDot
        /\ \E k \in p..(RunEnd(c, p, DigitDot) - 1) : c[k] \in Digit}

\* C18: parsePrice returns the value of the text's valid numeric token, with
\* grouping commas removed, and the currency token before it, also when a dot
\* or lower-case letters precede the number; it returns (0, "") for a text
\* without a numeric token.
C18_ParsePriceFindsTheNumber ==
    out.fn = "parsePrice" =>
        LET c == RemoveCommas(Flatten(text))
            S == NumberStarts(c)
        IN  /\ S = {} => out.res = [price |-> ZeroDec, currency |-> <<>>]
            /\ \A p \in S :
                  LET tok == SubSeq(c, p, RunEnd(c, p, DigitDot) - 1)
                      pre == TrimSpace(SubSeq(c, 1, p - 1))
                  IN  (S = {p} /\ ParseFloat(tok).ok) =>
                         /\ out.res.price = ParseFloat(tok).val
                         /\ (\A k \in 1..Len(pre) : pre[k] \in CurrencyChar)
                               => out.res.currency = pre

\* C19: a Listing of either source has AreaSqFt n * 10.764 when its text
\* holds "<n> m2", n when it holds "<n> sqft", and 0 only when it holds no
\* area.
C19_AreaInEitherUnit ==
    out.fn \in {"nepal", "dubai"} =>
        \A k \in 1..Len(out.emitted) :
            LET c == Flatten(text)
                metric == MeasureBefore(c, <<"m", "2">>)
                imperial == MeasureBefore(c, <<"s", "q", "f", "t">>)
                area == out.emitted[k].AreaSqFt
            IN  /\ (metric # <<>> /\ imperial = <<>>)
                      => area = TimesSqFtPerM2(ParseFloat(metric).val)
                /\ (imperial # <<>> /\ metric = <<>>)
                      => area = ParseFloat(imperial).val
                /\ area = ZeroDec => (metric = <<>> /\ imperial = <<>>)

NoDigitIn(c) == \A k \in 1..Len(c) : c[k] \notin Digit

\* C20: a Nepal listing node yields exactly one Listing whichever fields are
\* absent or unmatched, and an absent field has its zero value: 0 for price,
\* bedrooms, bathrooms and area, "" for currency, title, location and URL.
C20_MissIsNotAnError ==
    out.fn = "nepal" =>
        /\ Len(out.emitted) = 1
        /\ LET p == out.emitted[1]
               c == Flatten(text)
           IN  /\ (~Contains(c, <<"B", "e", "d">>) \/ NoDigitIn(c))
                     => p.Bedrooms = 0
               /\ (~Contains(c, <<"B", "a", "t", "h">>) \/ NoDigitIn(c))
                     => p.Bathrooms = 0
               /\ (~Contains(c, <<"s", "q", "f", "t">>) \/ NoDigitIn(c))
                     => p.AreaSqFt = ZeroDec
               /\ NoDigitIn(out.node.price)
                     => (p.Price = ZeroDec /\ p.Currency = <<>>)
               /\ out.node.title = "" => p.Title = ""
               /\ out.node.location = "" => p.Location = ""
               /\ ~out.node.href.exists => p.URL = <<>>

\* A node with bathrooms but no title, price, link, bedrooms or area.
C20_Witness ==
    /\ out.fn = "nepal"
    /\ Len(out.emitted) = 1
    /\ out.node.title = ""
    /\ out.node.price = <<>>
    /\ ~out.node.href.exists
    /\ ~Contains(Flatten(text), <<"B", "e", "d">>)
    /\ out.emitted[1].Bathrooms = 2
    /\ out.emitted[1].Bedrooms = 0
    /\ out.emitted[1].Price = ZeroDec

\* C21: logging protocol: every page attempt logs a start line and then
\* exactly one outcome line, a success line for a page that was extracted or
\* a failure line with the cause for a page that failed; at the end one
\* summary line tells the number of Listings written.
C21_LoggingProtocol ==
    /\ \A u \in DOMAIN unit :
          /\ unit[u] # "Pending" =>
                (Len(logLines[u]) >= 1 /\ logLines[u][1] = StartLine)
          /\ InFlight(u) => Len(logLines[u]) = 1
          /\ unit[u] = "Failed" =>
                (Len(logLines[u]) = 2 /\ logLines[u][2] = FailureLine(cause[u]))
          /\ unit[u] = "Done" =>
                (Len(logLines[u]) = 2 /\ logLines[u][2].kind = "success")
    /\ mainPc = "done" => (Len(saved) = 1 /\ logged = Len(saved[1].elems))

C23_DubaiCompletenessPolicy ==
    /\ [](\A p \in Range(sent) \cup Range(propertiesCollected)
                   \cup UNION {Range(f.elems) : f \in Range(saved)} :
             p.src = Dubai => (p.title # "" /\ p.price > 0))
    /\ [][\A s \in DOMAIN pc :
             (pc[s] = "each" /\ nodeIdx'[s] = nodeIdx[s] + 1)
                 => Len(sent') = Len(sent) + 1]_vars

\* The written artifact holds a Nepal Listing with price 0 next to a Dubai
\* Listing.
C23_Witness ==
    /\ Len(saved) = 1
    /\ \E p \in Range(saved[1].elems) : p.src = Nepal /\ p.price = 0
    /\ \E p \in Range(saved[1].elems) : p.src = Dubai

\* C24: termination without deadlock, as far as it holds: under fair
\* scheduling every run ends, by main's return or by log.Fatalf; when it ends
\* every producer has returned (all its sends were received), wg.Wait has
\* returned and the channel is closed; the collector is never blocked once
\* the channel is closed; a run that reaches the end of main has written the
\* artifact; and a live process always has a goroutine that can run.
C24_TerminatesWithoutDeadlock ==
    /\ <>(~Running)
    /\ [](~Running =>
            /\ ~panicked
            /\ chClosed
            /\ wg = 0
            /\ \A w \in DOMAIN pc : pc[w] = "exited"
            /\ cpc \in {"range", "exited"} => Len(propertiesCollected) = Len(sent))
    /\ []((Running /\ chClosed /\ cpc = "range") => ENABLED CollectorExit)
    /\ [](mainPc = "done" => saved # <<>>)
    /\ [](Running => ENABLED Next)

\* A run has ended at the end of main after the collector received
\* Properties from both sources and left its loop.
C24_Witness ==
    /\ mainPc = "done"
    /\ cpc = "exited"
    /\ saved # <<>>
    /\ \E p \in Range(sent) : p.src = Nepal
    /\ \E p \in Range(sent) : p.src = Dubai

\* C24 as stated: every fair run reaches the end of main with the collector's
\* receive loop ended and the artifact written.
C24_EveryRunWritesTheArtifact ==
    <>(mainPc = "done" /\ cpc = "exited" /\ saved # <<>>)


\* C25: exactly-once collection. propertiesCollected changes only by an append
\* of one element; in every reachable state each of its elements was sent by a
\* producer, no Property occurs in it twice, and it is no longer than the
\* sequence of sends performed so far.
C25_ExactlyOnceCollection ==
    /\ [][propertiesCollected' # propertiesCollected
            => \E p \in Range(sent') :
                   propertiesCollected' = Append(propertiesCollected, p)]_vars
    /\ [](\A k \in 1..Len(propertiesCollected) :
              propertiesCollected[k] \in Range(sent))
    /\ [](\A j, k \in 1..Len(propertiesCollected) :
              propertiesCollected[j] = propertiesCollected[k] => j = k)
    /\ [](Len(propertiesCollected) <= Len(sent))

\* Every source task has sent, and all of it has been collected.
C25_Witness ==
    /\ Len(propertiesCollected) >= 3
    /\ Len(propertiesCollected) = Len(sent)
    /\ \A s \in Sources : \E p \in Range(propertiesCollected) : p.src = s

\* C26: per-source order. Of two Properties sent by the same source task, the
\* one sent first stands before the one sent later wherever both are in
\* propertiesCollected.
C26_PerSourceOrderPreserved ==
    \A i, j \in 1..Len(sent) :
        (i < j /\ sent[i].src = sent[j].src)
            => \A a, b \in 1..Len(propertiesCollected) :
                   (propertiesCollected[a] = sent[i]
                        /\ propertiesCollected[b] = sent[j]) => a < b

\* Sources interleave: a Dubai Property stands between two Nepal ones.
C26_Witness ==
    \E a, b, c \in 1..Len(propertiesCollected) :
        /\ a < b /\ b < c
        /\ propertiesCollected[a].src = Nepal
        /\ propertiesCollected[b].src = Dubai
        /\ propertiesCollected[c].src = Nepal
        /\ propertiesCollected[a].page < propertiesCollected[c].page


\* C27: the pipeline runs its five steps strictly in the order scraper, data
\* extraction, record linkage, knowledge-graph generation, RAG; a step is
\* started only after the one before it has exited successfully; the first
\* failing step ends the pipeline with a non-zero exit status and no later
\* step is started; the final success line is logged only when all five
\* steps have succeeded.
C27_PipelineStepsInOrder ==
    /\ [](/\ Len(cmds) <= Len(Steps)
          /\ \A k \in 1..Len(cmds) : cmds[k].name = Steps[k])
    /\ [](\A k \in 2..Len(cmds) :
              cmds[k - 1].state = "exited" /\ cmds[k - 1].code = 0)
    /\ [](\A k \in 1..Len(cmds) :
              Failed(cmds[k]) => /\ k = Len(cmds)
                                 /\ pipePc \in {"returned", "fatal"})
    /\ [][(\E k \in 1..Len(cmds) : Failed(cmds[k]))
             => /\ pipePc' = "fatal"
                /\ pipeExit' # 0
                /\ cmds' = cmds
                /\ FinalLine \notin Range(pipeLog')]_vars
    /\ [](pipePc = "fatal" => pipeExit # 0)
    /\ []((FinalLine \in Range(pipeLog) \/ pipeExit = 0)
             => /\ Len(cmds) = Len(Steps)
                /\ \A k \in 1..Len(cmds) :
                      cmds[k].state = "exited" /\ cmds[k].code = 0)

\* The third step has failed after two successful ones and the pipeline has
\* exited.
C27_Witness ==
    /\ pipePc = "fatal"
    /\ pipeExit = 1
    /\ Len(cmds) = 3
    /\ cmds[3].state = "exited"
    /\ cmds[3].code # 0
    /\ cmds[1].code = 0
    /\ cmds[2].code = 0

====
